---- MODULE Spec2Model ----
(***************************************************************************)
(* Land-cover and soil-carbon analysis engine of SciVizz_project:          *)
(* LandcoverAnalyzer, LandcoverComparison and CarbonStockAnalyzer of       *)
(* src/processing.py with the class catalog of src/data_params.py.         *)
(* main of app.py and GeometryDrawer and LandcoverAnalyzer of src/utils.py *)
(* are modelled next to them.                                              *)
(*                                                                         *)
(* Python values are modelled as follows.                                  *)
(*  - A dict that the code iterates (a histogram) is a sequence of         *)
(*    records [k, v] with distinct keys, in insertion order.               *)
(*  - A dict that the code only looks up (the class catalog) is a          *)
(*    function from keys to values.                                        *)
(*  - A float is a fixed-point integer counting units of 1/Resolution.     *)
(*    A division rounds to the nearest unit, as IEEE division rounds to    *)
(*    the nearest double; the unit is coarser than a double's, so every    *)
(*    rounding error of the code is over-approximated.                     *)
(*  - A call ends in Return(value) or Raise(exception, argument).          *)
(***************************************************************************)
EXTENDS Integers, Sequences, FiniteSets, TLC

VARIABLES
    lc_analyzer,       \* the LandcoverAnalyzer object: [dataset, data]
    lc_result,         \* outcome of the last call made on lc_analyzer
    lc_counts,         \* utils.py: the local lc_counts of analyze_landcover
    lc_calls,          \* chart calls made on lc_analyzer since its last fetch
    lc_fetched,        \* what the service answered to the last fetch that succeeded
    data_2000,         \* baseline histogram handed to LandcoverComparison
    data_2018,         \* comparison histogram handed to LandcoverComparison
    lc_comparison,     \* the LandcoverComparison object, or the failed construction
    comparison_chart,  \* outcome of generate_comparison_chart
    soc_info,          \* what getInfo() answers for the region's carbon-stock histogram
    soc_analyzer,      \* the CarbonStockAnalyzer object: [dataset, data]
    soc_result,        \* outcome of the last call made on soc_analyzer
    soc_fetched,       \* what the service answered to the last fetch that succeeded
    app_service,       \* app.py: what the service holds for each region
    app_analyzers,     \* app.py: the LandcoverAnalyzer objects, by identity
    app_runs,          \* app.py: the locals and the position of each run of main
    drawn_geometries,  \* utils.py: the list of the GeometryDrawer
    draw_events        \* the draw events handled so far, oldest first

vars == <<lc_analyzer, lc_result, lc_counts, lc_calls, lc_fetched, data_2000, data_2018, lc_comparison,
          comparison_chart, soc_info, soc_analyzer, soc_result, soc_fetched,
          app_service, app_analyzers, app_runs, drawn_geometries, draw_events>>

lc_vars == <<lc_analyzer, lc_result, lc_counts, lc_calls, lc_fetched>>
draw_vars == <<drawn_geometries, draw_events>>
cmp_vars == <<data_2000, data_2018, lc_comparison, comparison_chart>>
soc_vars == <<soc_info, soc_analyzer, soc_result, soc_fetched>>
app_vars == <<app_service, app_analyzers, app_runs>>

-----------------------------------------------------------------------------
(* Bounds of the model and the input alphabets.                            *)

\* Most keys of a land-cover histogram.
MaxKeys == 2

\* Most keys of a carbon-stock histogram.
MaxSocKeys == 3

\* Chart calls followed between two fetches of one analyzer.
MaxCalls == 2

\* Draw events handled by one GeometryDrawer.
MaxEvents == 4

\* The features a user may draw: a geo_json dict with an "id" and a shape.
\* Two features may carry the same id.
GeoJsons == { [id |-> id, geometry |-> shape] : id \in {"f1", "f2"},
                                                 shape \in {"Polygon", "Rectangle"} }

\* The actions a DrawControl reports.
DrawActions == {"created", "deleted", "edited"}

\* Category codes a land-cover histogram may hold: two of the catalog and one
\* ("999") that the catalog does not know.
LcKeys == {"130", "190", "999"}

\* Pixel counts of a land-cover histogram.
LcCounts == {0, 50, 100, 120}

\* Keys a carbon-stock histogram may hold: stock changes below, at, between
\* and above the thresholds, a key float() reads as NaN and one it rejects.
SocKeys == {"-10", "-2.5", "0", "2.5", "10", "nan", "abc"}

\* Pixel counts of a carbon-stock histogram.
SocCounts == {2, 3, 5}

-----------------------------------------------------------------------------
(* Python values.                                                          *)

None == [tag |-> "None"]
NoAttribute == [tag |-> "no attribute"]
Unbound == [tag |-> "unbound"]
Dict(items) == [tag |-> "dict", items |-> items]

Return(value) == [kind |-> "return", value |-> value]
Raise(exc, arg) == [kind |-> "raise", exc |-> exc, arg |-> arg]
\* The last call made on an object and how it ended.
Call(name, outcome) == [call |-> name, outcome |-> outcome]
NotCalled == Call("none", Return(None))

\* list(d.keys()), list(d.values()), key in d, d[key] of an ordered dict.
Keys(d) == [i \in 1..Len(d) |-> d[i].k]
Values(d) == [i \in 1..Len(d) |-> d[i].v]
Has(d, key) == \E i \in 1..Len(d) : d[i].k = key
Get(d, key) == d[CHOOSE i \in 1..Len(d) : d[i].k = key].v

\* sum(values)
RECURSIVE sum(_)
sum(values) == IF values = << >> THEN 0 ELSE Head(values) + sum(Tail(values))

Min(S) == CHOOSE x \in S : \A y \in S : x <= y

\* The dicts with at most n keys drawn from keys and values drawn from counts,
\* in every insertion order.
Histograms(keys, counts, n) ==
    UNION { { h \in [1..m -> [k : keys, v : counts]] :
                \A i, j \in 1..m : h[i].k = h[j].k => i = j } : m \in 0..n }

-----------------------------------------------------------------------------
(* Floats.                                                                 *)

\* Units per 1.0.
Resolution == 1000 * 1000

\* a / b for integers a and b > 0, rounded to the nearest unit.
RoundDiv(a, b) == (a \div b) * Resolution + (2 * (a % b) * Resolution + b) \div (2 * b)
TrueDiv(a, b) == IF a >= 0 THEN RoundDiv(a, b) ELSE 0 - RoundDiv(0 - a, b)

-----------------------------------------------------------------------------
(* GEEData: the class catalog of src/data_params.py.                       *)

Datasets == {"Global-Land-Cover", "SOC-Stock-Change"}

GLC_class_colors ==
       ("10" :> "#ffff64")
    @@ ("11" :> "#ffff64")
    @@ ("12" :> "#ffff00")
    @@ ("20" :> "#aaf0f0")
    @@ ("30" :> "#dcf064")
    @@ ("40" :> "#c8c864")
    @@ ("50" :> "#006400")
    @@ ("60" :> "#00a000")
    @@ ("61" :> "#00a000")
    @@ ("62" :> "#aac800")
    @@ ("70" :> "#003c00")
    @@ ("71" :> "#003c00")
    @@ ("72" :> "#005000")
    @@ ("80" :> "#285000")
    @@ ("81" :> "#285000")
    @@ ("82" :> "#286400")
    @@ ("90" :> "#788200")
    @@ ("100" :> "#8ca000")
    @@ ("110" :> "#be9600")
    @@ ("120" :> "#966400")
    @@ ("121" :> "#966400")
    @@ ("122" :> "#966400")
    @@ ("130" :> "#ffb432")
    @@ ("140" :> "#ffdcd2")
    @@ ("150" :> "#ffebaf")
    @@ ("151" :> "#ffc864")
    @@ ("152" :> "#ffd278")
    @@ ("153" :> "#ffebaf")
    @@ ("160" :> "#00785a")
    @@ ("170" :> "#009678")
    @@ ("180" :> "#00dc82")
    @@ ("190" :> "#c31400")
    @@ ("200" :> "#fff5d7")
    @@ ("201" :> "#dcdcdc")
    @@ ("202" :> "#fff5d7")
    @@ ("210" :> "#0046c8")
    @@ ("220" :> "#ffffff")

GLC_class_names ==
       ("10" :> "Cropland, rainfed")
    @@ ("11" :> "Cropland, rainfed, herbaceous cover")
    @@ ("12" :> "Cropland, rainfed, tree, or shrub cover")
    @@ ("20" :> "Cropland, irrigated or post-flooding")
    @@ ("30" :> "Mosaic cropland (>50%) / natural vegetation (tree, shrub, herbaceous cover) (<50%)")
    @@ ("40" :> "Mosaic natural vegetation (tree, shrub, herbaceous cover) (>50%) / cropland (<50%)")
    @@ ("50" :> "Tree cover, broadleaved, evergreen, closed to open (>15%)")
    @@ ("60" :> "Tree cover, broadleaved, deciduous, closed to open (>15%)")
    @@ ("61" :> "Tree cover, broadleaved, deciduous, closed (>40%)")
    @@ ("62" :> "Tree cover, broadleaved, deciduous, open (15- 40%)")
    @@ ("70" :> "Tree cover, needleleaved, evergreen, closed to open (>15%)")
    @@ ("71" :> "Tree cover, needleleaved, evergreen, closed (>40%)")
    @@ ("72" :> "Tree cover, needleleaved, evergreen, open (15-40%)")
    @@ ("80" :> "Tree cover, needleleaved, deciduous, closed to open (>15%)")
    @@ ("81" :> "Tree cover, needleleaved, deciduous, closed (>40%)")
    @@ ("82" :> "Tree cover, needleleaved, deciduous, open (15-40%)")
    @@ ("90" :> "Tree cover, mixed leaf type (broadleaved and needleleaved)")
    @@ ("100" :> "Mosaic tree and shrub (>50%) / herbaceous cover (<50%)")
    @@ ("110" :> "Mosaic herbaceous cover (>50%) / tree and shrub (<50%)")
    @@ ("120" :> "Shrubland")
    @@ ("121" :> "Evergreen shrubland")
    @@ ("122" :> "Deciduous shrubland")
    @@ ("130" :> "Grassland")
    @@ ("140" :> "Lichens and mosses")
    @@ ("150" :> "Sparse vegetation (tree, shrub, herbaceous cover) (<15%)")
    @@ ("151" :> "Sparse tree (<15%)")
    @@ ("152" :> "Sparse shrub (<15%)")
    @@ ("153" :> "Sparse herbaceous cover (<15%)")
    @@ ("160" :> "Tree cover, flooded, fresh, or brackish water")
    @@ ("170" :> "Tree cover, flooded, saline water")
    @@ ("180" :> "Shrub or herbaceous cover, flooded, fresh/saline/brackish water")
    @@ ("190" :> "Urban areas")
    @@ ("200" :> "Bare areas ")
    @@ ("201" :> "Consolidated bare areas")
    @@ ("202" :> "Unconsolidated bare areas")
    @@ ("210" :> "Water bodies")
    @@ ("220" :> "Permanent snow and ice ")

EmptyDict == [key \in {} |-> ""]

GEEData_class_colors(dataset) ==
    IF dataset = "Global-Land-Cover" THEN GLC_class_colors ELSE EmptyDict

GEEData_class_names(dataset) ==
    IF dataset = "Global-Land-Cover" THEN GLC_class_names ELSE EmptyDict

-----------------------------------------------------------------------------
(* LandcoverAnalyzer.                                                      *)

\* LandcoverAnalyzer(dataset): __init__ stores the dataset and creates no
\* data attribute.
LandcoverAnalyzer_init(dataset) ==
    [class |-> "processing.LandcoverAnalyzer", dataset |-> dataset, data |-> NoAttribute]

\* What reduceRegion(...).getInfo() may answer: a dict with the band "b1"
\* holding the histogram, or a dict without that band.
LcServiceAnswers ==
    { [b1 |-> Dict(h)] : h \in Histograms(LcKeys, LcCounts, MaxKeys) } \cup { [b1 |-> None] }

\* calculate_frequency_histogram keeping the histogram it already holds: only
\* the first answer is stored, later answers are returned and not stored.
LandcoverAnalyzer_calculate_frequency_histogram_cached(self, info) ==
    [self |-> IF self.data.tag = "dict" THEN self ELSE [self EXCEPT !.data = info.b1],
     outcome |-> Return(info.b1)]

\* calculate_frequency_histogram after a successful getInfo(): the object it
\* leaves and the outcome of the call.  info.get("b1") is None when the band
\* is missing, which the answer [b1 |-> None] stands for.
LandcoverAnalyzer_calculate_frequency_histogram(self, info) ==
    [self |-> [self EXCEPT !.data = info.b1], outcome |-> Return(info.b1)]

\* calculate_frequency_histogram retrying once: when the first request
\* fails and the service would answer a second one, it asks again.
LandcoverAnalyzer_request_retrying(self, answers) ==
    LET failed == Head(answers).kind = "raise"
        retry == failed /\ Len(answers) > 1
        answer == IF retry THEN answers[2] ELSE Head(answers)
    IN  [self |-> IF answer.kind = "raise" THEN self
                  ELSE [self EXCEPT !.data = answer.value.b1],
         outcome |-> IF answer.kind = "raise" THEN answer ELSE Return(answer.value.b1),
         requests |-> IF retry THEN 2 ELSE 1]

\* calculate_frequency_histogram as a whole call.  answers holds what
\* getInfo() would answer, or raise, on successive requests: line 63 makes
\* one request, and when it raises the assignment to self.data is not
\* reached and the exception leaves the method.
LandcoverAnalyzer_request(self, answers) ==
    LET answer == Head(answers)
    IN  IF answer.kind = "raise"
        THEN [self |-> self, outcome |-> answer, requests |-> 1]
        ELSE LET call == LandcoverAnalyzer_calculate_frequency_histogram(self, answer.value)
             IN  [self |-> call.self, outcome |-> call.outcome, requests |-> 1]

\* The mapping read with get(key, key): a key it lacks yields the key itself.
Subscripts_get(mapping, data) ==
    Return([i \in 1..Len(data) |->
               IF data[i].k \in DOMAIN mapping THEN mapping[data[i].k] ELSE data[i].k])

\* [mapping[key] for key in data.keys()]: the first key the mapping lacks
\* raises KeyError.
Subscripts(mapping, data) ==
    LET missing == { i \in 1..Len(data) : data[i].k \notin DOMAIN mapping }
    IN  IF missing # {} THEN Raise("KeyError", data[Min(missing)].k)
        ELSE Return([i \in 1..Len(data) |-> mapping[data[i].k]])

\* The labels left as line 78 sets them: the raw category codes.
Labels_keys(class_names, data) == Return(Keys(data))

\* labels = [self.class_names[key] for key in self.data.keys()]
Labels(class_names, data) == Subscripts(class_names, data)

\* colors = [self.class_colors[key] for key in self.data.keys()]
Colors(class_colors, data) == Subscripts(class_colors, data)

\* 100 * value // total: the floor division.
Percentage_floordiv(value, total) == ((100 * value) \div total) * Resolution

\* 100 * value / total, total # 0
Percentage(value, total) == TrueDiv(100 * value, total)

\* percentages = [100 * value / total for value in values]: the first
\* element evaluated divides by total.
Percentages(values, total) ==
    IF Len(values) > 0 /\ total = 0 THEN Raise("ZeroDivisionError", "division by zero")
    ELSE Return([i \in 1..Len(values) |-> Percentage(values[i], total)])

\* _prepare_data reading an absent histogram as an empty one, as with
\* data = getattr(self, "data", None) or {}.
LandcoverAnalyzer_prepare_data_defaulting(self) ==
    LET data == IF self.data.tag = "dict" THEN self.data.items ELSE << >>
        values == Values(data)
        total == sum(values)
        labels == Labels(GEEData_class_names(self.dataset), data)
        colors == Colors(GEEData_class_colors(self.dataset), data)
        percentages == Percentages(values, total)
    IN  IF labels.kind = "raise" THEN labels
        ELSE IF colors.kind = "raise" THEN colors
        ELSE IF percentages.kind = "raise" THEN percentages
        ELSE Return([labels |-> labels.value,
                     percentages |-> percentages.value,
                     colors |-> colors.value])

\* _prepare_data: the first statement that raises decides the outcome.
LandcoverAnalyzer_prepare_data(self) ==
    IF self.data.tag = "no attribute" THEN Raise("AttributeError", "data")
    ELSE IF self.data.tag = "None" THEN Raise("AttributeError", "values")
    ELSE
        LET data == self.data.items
            values == Values(data)
            total == sum(values)
            labels == Labels(GEEData_class_names(self.dataset), data)
            colors == Colors(GEEData_class_colors(self.dataset), data)
            percentages == Percentages(values, total)
        IN  IF labels.kind = "raise" THEN labels
            ELSE IF colors.kind = "raise" THEN colors
            ELSE IF percentages.kind = "raise" THEN percentages
            ELSE Return([labels |-> labels.value,
                         percentages |-> percentages.value,
                         colors |-> colors.value])

\* get_pie_chart_plotly: the pie trace of the figure, or the exception of
\* _prepare_data.
LandcoverAnalyzer_get_pie_chart_plotly(self) ==
    LET prepared == LandcoverAnalyzer_prepare_data(self)
    IN  IF prepared.kind = "raise" THEN prepared
        ELSE Return([labels |-> prepared.value.labels,
                     values |-> prepared.value.percentages,
                     marker_colors |-> prepared.value.colors])

-----------------------------------------------------------------------------
(* LandcoverComparison.                                                    *)

\* The category_colors and class_names a caller may hand to the constructor,
\* which takes any two mappings: the land-cover catalog, as main hands it
\* over, and a catalog that has the colour of "190" but not its name.
CmpCatalogs ==
    { [category_colors |-> GEEData_class_colors("Global-Land-Cover"),
       class_names |-> GEEData_class_names("Global-Land-Cover")],
      [category_colors |-> GEEData_class_colors("Global-Land-Cover"),
       class_names |-> [code \in DOMAIN GLC_class_names \ {"190"} |-> GLC_class_names[code]]] }

\* What main hands to LandcoverComparison as data_2000 and data_2018: the
\* values calculate_frequency_histogram returned.
CmpFetched ==
    { Dict(h) : h \in Histograms(LcKeys, LcCounts, MaxKeys) } \cup { None }

\* calculate_change dividing by the comparison count instead of the baseline
\* count.
LandcoverComparison_calculate_change_by_2018(self, category) ==
    IF self.landcover_2018.tag = "None" THEN Raise("TypeError", "not subscriptable")
    ELSE IF ~Has(self.landcover_2018.items, category) THEN Raise("KeyError", category)
    ELSE IF Get(self.landcover_2018.items, category) = 0
         THEN Raise("ZeroDivisionError", "division by zero")
    ELSE Return(TrueDiv(Get(self.landcover_2018.items, category)
                            - Get(self.landcover_2000.items, category),
                        Get(self.landcover_2018.items, category)) * 100)

\* calculate_change(category): self.landcover_2018[category] is read first,
\* then self.landcover_2000[category] (a key of it by construction), then the
\* quotient is taken and multiplied by 100.
LandcoverComparison_calculate_change(self, category) ==
    IF self.landcover_2018.tag = "None" THEN Raise("TypeError", "not subscriptable")
    ELSE IF ~Has(self.landcover_2018.items, category) THEN Raise("KeyError", category)
    ELSE IF Get(self.landcover_2000.items, category) = 0
         THEN Raise("ZeroDivisionError", "division by zero")
    ELSE Return(TrueDiv(Get(self.landcover_2018.items, category)
                            - Get(self.landcover_2000.items, category),
                        Get(self.landcover_2000.items, category)) * 100)

\* [x for x in xs if keep(x)]: the subsequence of the kept elements.
RECURSIVE Filter(_, _)
Filter(xs, kept) ==
    IF xs = << >> THEN << >>
    ELSE IF Head(xs) \in kept THEN << Head(xs) >> \o Filter(Tail(xs), kept)
    ELSE Filter(Tail(xs), kept)

\* The constructor taking as categories only the baseline keys that the
\* comparison histogram holds too.
LandcoverComparison_init_common_keys(d2000, d2018, category_colors, class_names) ==
    IF d2000.tag = "None" THEN Raise("AttributeError", "keys")
    ELSE
        LET categories == IF d2018.tag = "dict"
                          THEN Filter(Keys(d2000.items),
                                      { Keys(d2018.items)[i] : i \in 1..Len(d2018.items) })
                          ELSE Keys(d2000.items)
            self == [landcover_2000 |-> d2000, landcover_2018 |-> d2018]
            outcomes == [i \in 1..Len(categories) |->
                            LandcoverComparison_calculate_change(self, categories[i])]
            raised == { i \in 1..Len(categories) : outcomes[i].kind = "raise" }
        IN  IF raised # {} THEN outcomes[Min(raised)]
            ELSE Return([landcover_2000 |-> d2000,
                         landcover_2018 |-> d2018,
                         categories |-> categories,
                         category_colors |-> category_colors,
                         changes |-> [i \in 1..Len(categories) |->
                                         [k |-> categories[i], v |-> outcomes[i].value]],
                         class_names |-> class_names])

\* LandcoverComparison(data_2000, data_2018, category_colors, class_names):
\* the object, or the exception of the first statement that raises.  The dict
\* comprehension of line 148 calls calculate_change category by category.
LandcoverComparison_init(d2000, d2018, category_colors, class_names) ==
    IF d2000.tag = "None" THEN Raise("AttributeError", "keys")
    ELSE
        LET categories == Keys(d2000.items)
            self == [landcover_2000 |-> d2000, landcover_2018 |-> d2018]
            outcomes == [i \in 1..Len(categories) |->
                            LandcoverComparison_calculate_change(self, categories[i])]
            raised == { i \in 1..Len(categories) : outcomes[i].kind = "raise" }
        IN  IF raised # {} THEN outcomes[Min(raised)]
            ELSE Return([landcover_2000 |-> d2000,
                         landcover_2018 |-> d2018,
                         categories |-> categories,
                         category_colors |-> category_colors,
                         changes |-> [i \in 1..Len(categories) |->
                                         [k |-> categories[i], v |-> outcomes[i].value]],
                         class_names |-> class_names])

\* The filter written with > 0: decreases are dropped with the zeros.
NonZeroCategories_positive(self) ==
    Filter(self.categories,
           { c \in { self.categories[i] : i \in 1..Len(self.categories) } :
                Get(self.changes, c) > 0 })

\* The filter run over the keys of the comparison histogram instead of
\* self.categories.
NonZeroCategories_by_2018(self) ==
    Filter(IF self.landcover_2018.tag = "dict"
           THEN Keys(self.landcover_2018.items) ELSE << >>,
           { c \in { self.categories[i] : i \in 1..Len(self.categories) } :
                Get(self.changes, c) # 0 })


\* non_zero_categories = [category for category in self.categories
\*                        if self.changes[category] != 0]
NonZeroCategories(self) ==
    Filter(self.categories,
           { c \in { self.categories[i] : i \in 1..Len(self.categories) } :
                Get(self.changes, c) # 0 })

\* f"{change:.2f}%": the sign and the hundredths nearest to the magnitude.
Format2f(change) ==
    [negative |-> change < 0,
     hundredths |-> (2 * (IF change < 0 THEN 0 - change ELSE change) + Resolution \div 100)
                        \div (2 * (Resolution \div 100))]

\* self.class_names.get(category, category)
ClassNameOrCode(class_names, category) ==
    IF category \in DOMAIN class_names THEN class_names[category] ELSE category

\* generate_comparison_chart: the bar trace and the tick texts of the figure.
\* go.Bar's arguments are evaluated in the order x, y, marker, text; only
\* self.category_colors[category] can raise.
LandcoverComparison_generate_comparison_chart(self) ==
    LET non_zero_categories == NonZeroCategories(self)
        n == Len(non_zero_categories)
        uncolored == { i \in 1..n : non_zero_categories[i] \notin DOMAIN self.category_colors }
    IN  IF uncolored # {} THEN Raise("KeyError", non_zero_categories[Min(uncolored)])
        ELSE Return(
            [x |-> [i \in 1..n |-> ClassNameOrCode(self.class_names, non_zero_categories[i])],
             y |-> [i \in 1..n |-> Get(self.changes, non_zero_categories[i])],
             marker_color |-> [i \in 1..n |-> self.category_colors[non_zero_categories[i]]],
             text |-> [i \in 1..n |-> Format2f(Get(self.changes, non_zero_categories[i]))],
             tickvals |-> [i \in 1..n |-> i - 1],
             ticktext |-> [i \in 1..n |->
                              ClassNameOrCode(self.class_names, non_zero_categories[i])]])

-----------------------------------------------------------------------------
(* CarbonStockAnalyzer.                                                    *)

\* CarbonStockAnalyzer(dataset): __init__ sets self.data = None.
CarbonStockAnalyzer_init(dataset) == [dataset |-> dataset, data |-> None]

\* What reduceRegion(...).getInfo() may answer for the carbon-stock image.
SocServiceAnswers ==
    { [b1 |-> Dict(h)] : h \in Histograms(SocKeys, SocCounts, MaxSocKeys) } \cup { [b1 |-> None] }

\* calculate_frequency_histogram after a successful getInfo().
CarbonStockAnalyzer_calculate_frequency_histogram(self, info) ==
    [self |-> [self EXCEPT !.data = info.b1], outcome |-> Return(info.b1)]

\* calculate_frequency_histogram as a whole call, as for LandcoverAnalyzer:
\* one request at line 220, whose exception leaves self.data unassigned.
CarbonStockAnalyzer_request(self, answers) ==
    LET answer == Head(answers)
    IN  IF answer.kind = "raise"
        THEN [self |-> self, outcome |-> answer, requests |-> 1]
        ELSE LET call == CarbonStockAnalyzer_calculate_frequency_histogram(self, answer.value)
             IN  [self |-> call.self, outcome |-> call.outcome, requests |-> 1]

\* A float of the classifier: a number of units, or NaN.
Float(x) == [nan |-> FALSE, x |-> x]
NaN == [nan |-> TRUE, x |-> 0]

\* a < b and a <= b on floats: every comparison with NaN is false.
Less(a, b) == ~a.nan /\ ~b.nan /\ a.x < b.x
LessEq(a, b) == ~a.nan /\ ~b.nan /\ a.x <= b.x

\* A parser that reads a key it cannot parse as 0.0 instead of raising.
float_or_zero(key) ==
    CASE key = "-10" -> Return(Float(0 - 10 * Resolution))
      [] key = "-2.5" -> Return(Float(0 - (5 * Resolution) \div 2))
      [] key = "0" -> Return(Float(0))
      [] key = "2.5" -> Return(Float((5 * Resolution) \div 2))
      [] key = "10" -> Return(Float(10 * Resolution))
      [] key = "nan" -> Return(NaN)
      [] OTHER -> Return(Float(0))

\* float(key) on the keys of SocKeys.
float(key) ==
    CASE key = "-10" -> Return(Float(0 - 10 * Resolution))
      [] key = "-2.5" -> Return(Float(0 - (5 * Resolution) \div 2))
      [] key = "0" -> Return(Float(0))
      [] key = "2.5" -> Return(Float((5 * Resolution) \div 2))
      [] key = "10" -> Return(Float(10 * Resolution))
      [] key = "nan" -> Return(NaN)
      [] OTHER -> Raise("ValueError", key)

\* The literal 2.5 of lines 228 to 230.
Threshold == Float((5 * Resolution) \div 2)
NegThreshold == Float(0 - (5 * Resolution) \div 2)

\* value < -2.5, -2.5 <= value <= 2.5, value > 2.5
IsLoss(value) == Less(value, NegThreshold)
IsNoChange(value) == LessEq(NegThreshold, value) /\ LessEq(value, Threshold)
IsGain(value) == Less(Threshold, value)

\* categorize_counts: (losses, no_change, gains), or the exception of the
\* first statement that raises.
CarbonStockAnalyzer_categorize_counts(self) ==
    IF self.data.tag = "None" THEN Raise("AttributeError", "keys")
    ELSE
        LET keys == Keys(self.data.items)
            parsed == [i \in 1..Len(keys) |-> float(keys[i])]
            raised == { i \in 1..Len(keys) : parsed[i].kind = "raise" }
            values == [i \in 1..Len(keys) |-> parsed[i].value]
        IN  IF raised # {} THEN parsed[Min(raised)]
            ELSE Return([losses |-> Cardinality({ i \in 1..Len(keys) : IsLoss(values[i]) }),
                         no_change |-> Cardinality({ i \in 1..Len(keys) : IsNoChange(values[i]) }),
                         gains |-> Cardinality({ i \in 1..Len(keys) : IsGain(values[i]) })])

\* The share computed with integer division: count // total * 100.
Share_floordiv(count, total) == (count \div total) * 100 * Resolution


\* count / total * 100, total # 0
Share(count, total) == TrueDiv(count, total) * 100

\* The chart with a guarded division: a total of 0 gives three shares of 0
\* and an empty figure of three bars instead of an exception.
CarbonStockAnalyzer_get_stackbar_chart_plotly_guarded(self) ==
    LET counts == CarbonStockAnalyzer_categorize_counts(self)
    IN  IF counts.kind = "raise" THEN counts
        ELSE
            LET losses == counts.value.losses
                no_change == counts.value.no_change
                gains == counts.value.gains
                total == losses + no_change + gains
                share(count) == IF total = 0 THEN 0 ELSE Share(count, total)
            IN  Return(
                    [total |-> total,
                     percentages |-> << share(losses), share(no_change), share(gains) >>,
                     bars |-> << [name |-> "Losses", y |-> losses,
                                  marker_color |-> "#B30200",
                                  text |-> Format2f(share(losses))],
                                 [name |-> "No Change", y |-> no_change,
                                  marker_color |-> "#FFFFCC",
                                  text |-> Format2f(share(no_change))],
                                 [name |-> "Gains", y |-> gains,
                                  marker_color |-> "#066C59",
                                  text |-> Format2f(share(gains))] >>])

\* get_stackbar_chart_plotly: the three bar traces of the figure, or the
\* exception of the first statement that raises.
CarbonStockAnalyzer_get_stackbar_chart_plotly(self) ==
    LET counts == CarbonStockAnalyzer_categorize_counts(self)
    IN  IF counts.kind = "raise" THEN counts
        ELSE
            LET losses == counts.value.losses
                no_change == counts.value.no_change
                gains == counts.value.gains
                total == losses + no_change + gains
            IN  IF total = 0 THEN Raise("ZeroDivisionError", "division by zero")
                ELSE Return(
                    [total |-> total,
                     percentages |-> << Share(losses, total), Share(no_change, total),
                                        Share(gains, total) >>,
                     bars |-> << [name |-> "Losses", y |-> losses,
                                  marker_color |-> "#B30200",
                                  text |-> Format2f(Share(losses, total))],
                                 [name |-> "No Change", y |-> no_change,
                                  marker_color |-> "#FFFFCC",
                                  text |-> Format2f(Share(no_change, total))],
                                 [name |-> "Gains", y |-> gains,
                                  marker_color |-> "#066C59",
                                  text |-> Format2f(Share(gains, total))] >>])

-----------------------------------------------------------------------------
(* utils.py: LandcoverAnalyzer.analyze_landcover, the stand-alone           *)
(* normalization of a fetched histogram.                                   *)

\* LandcoverAnalyzer(map_renderer) of utils.py.
utils_LandcoverAnalyzer_init ==
    [class |-> "utils.LandcoverAnalyzer", map_renderer |-> "map_renderer"]

\* The landcover_info argument: per category code a dict with the keys
\* "Landcover" and "Color", here filled from the land-cover catalog.
LandcoverInfo ==
    [code \in DOMAIN GLC_class_names |->
        [Landcover |-> GLC_class_names[code], Color |-> GLC_class_colors[code]]]

\* round((count / total_count) * 100, 1), in tenths of a percent.
RoundedPercentage(count, total_count) ==
    (2 * (TrueDiv(count, total_count) * 100) + Resolution \div 10)
        \div (2 * (Resolution \div 10))

\* One pass of the loop of lines 169 to 178: the division comes first, then
\* the two lookups in landcover_info.
utils_Row(landcover, count, total_count, landcover_info) ==
    IF total_count = 0 THEN Raise("ZeroDivisionError", "division by zero")
    ELSE IF landcover \notin DOMAIN landcover_info THEN Raise("KeyError", landcover)
    ELSE Return([Value |-> landcover,
                 Landcover |-> landcover_info[landcover].Landcover,
                 Color |-> landcover_info[landcover].Color,
                 Percentage |-> RoundedPercentage(count, total_count)])

\* analyze_landcover from line 165 on: the rows of result_df, or the
\* exception of the first statement that raises.  percentage_landcover is
\* keyed by label: a label met again keeps its place and takes the later
\* row.  A frame built from no rows has no "Percentage" column, and the
\* selection of line 184 raises KeyError; otherwise the rows with a
\* percentage of 0 are removed.
utils_LandcoverAnalyzer_analyze_landcover(counts, landcover_info) ==
    IF counts.tag = "None" THEN Raise("AttributeError", "values")
    ELSE
        LET items == counts.items
            n == Len(items)
            total_count == sum(Values(items))
            rows == [i \in 1..n |->
                        utils_Row(items[i].k, items[i].v, total_count, landcover_info)]
            raised == { i \in 1..n : rows[i].kind = "raise" }
            first == { i \in 1..n :
                         \A j \in 1..(i - 1) : rows[j].value.Landcover # rows[i].value.Landcover }
            last(i) == CHOOSE j \in i..n :
                         /\ rows[j].value.Landcover = rows[i].value.Landcover
                         /\ \A l \in (j + 1)..n :
                                rows[l].value.Landcover # rows[i].value.Landcover
            kept == { i \in first : rows[last(i)].value.Percentage # 0 }
            order == Filter([i \in 1..n |-> i], kept)
        IN  IF raised # {} THEN rows[Min(raised)]
            ELSE IF n = 0 THEN Raise("KeyError", "Percentage")
            ELSE Return([i \in 1..Len(order) |-> rows[last(order[i])].value])

-----------------------------------------------------------------------------
(* utils.py: GeometryDrawer.  A list is a sequence; list.remove(x) removes   *)
(* the first element equal to x; a for loop over a list reads the element   *)
(* at its index and stops when the index has reached the list's current     *)
(* length, so that a removal during the loop moves the next element under   *)
(* the index already visited.                                               *)

\* GeometryDrawer(map_renderer): drawn_geometries = [].
GeometryDrawer_init == << >>

\* list.remove(x) for an x the list holds.
Remove(list, x) ==
    LET first == Min({ i \in 1..Len(list) : list[i] = x })
    IN  SubSeq(list, 1, first - 1) \o SubSeq(list, first + 1, Len(list))

\* The loop of lines 127 to 129 from the (1-based) index i on.
RECURSIVE GeometryDrawer_delete_loop(_, _, _)
GeometryDrawer_delete_loop(list, i, id) ==
    IF i > Len(list) THEN list
    ELSE IF list[i].id = id
         THEN GeometryDrawer_delete_loop(Remove(list, list[i]), i + 1, id)
         ELSE GeometryDrawer_delete_loop(list, i + 1, id)

\* handle_draw(event, action, geo_json): drawn_geometries after the call.
GeometryDrawer_handle_draw(drawn, event, action, geo_json) ==
    IF action = "created" THEN Append(drawn, geo_json)
    ELSE IF action = "deleted" THEN GeometryDrawer_delete_loop(drawn, 1, event.id)
    ELSE drawn


-----------------------------------------------------------------------------
(* app.py: main.  Every user interaction runs the script once; a run is     *)
(* modelled from the Submit button on, one action per call that leaves     *)
(* the run (a request to the service) or reads or writes an analyzer.      *)

\* The runs of main under way at once, one per session.
Runs == {1, 2}

\* The rectangles the service knows, and what a user may have drawn: a
\* rectangle with the answers the two checks of lines 90 and 95 give for it.
Regions == {"A", "B"}
Drawings ==
    { [tag |-> "drawing", region |-> region, too_large |-> t, in_boundary |-> b] :
        region \in Regions, t \in BOOLEAN, b \in BOOLEAN }

List(items) == [tag |-> "list", items |-> items]

\* What st_folium returns: the drawings on the map and the one last touched.
Outputs ==
    { [all_drawings |-> None, last_active_drawing |-> None],
      [all_drawings |-> List(<< >>), last_active_drawing |-> None] }
    \cup { [all_drawings |-> List(<< d >>), last_active_drawing |-> None] : d \in Drawings }
    \cup { [all_drawings |-> List(<< d >>), last_active_drawing |-> d] : d \in Drawings }

\* Lines 41 to 47: geojson is the last active drawing, when there is one.
Geojson(output) ==
    IF output.all_drawings.tag # "None"
    THEN IF Len(output.all_drawings.items) # 0
         THEN IF output.last_active_drawing.tag # "None"
              THEN output.last_active_drawing
              ELSE None
         ELSE None
    ELSE None

\* The histograms the service may hold for a rectangle and a year.
AppLcHistograms ==
    { Dict(<< [k |-> "130", v |-> 100], [k |-> "190", v |-> 50] >>),
      Dict(<< [k |-> "190", v |-> 50], [k |-> "130", v |-> 120] >>),
      Dict(<< [k |-> "130", v |-> 120] >>) }

\* The carbon-stock histogram the service holds for a rectangle.
AppSocHistogram(region) ==
    IF region = "A"
    THEN Dict(<< [k |-> "-10", v |-> 5], [k |-> "0", v |-> 3], [k |-> "10", v |-> 2] >>)
    ELSE Dict(<< [k |-> "10", v |-> 2], [k |-> "2.5", v |-> 3] >>)

\* What getInfo() can do on the requests of one call: answer, or raise on
\* the first request and answer a second one.
Answers(histogram) ==
    { << Return([b1 |-> histogram]) >>,
      << Raise("EEException", "getInfo"), Return([b1 |-> histogram]) >> }

\* The locals of a run that has reached the button of line 83.
Run(output) ==
    [output |-> output,
     geojson |-> Geojson(output),
     pc |-> "button",
     trace |-> << >>,
     warning |-> None,
     data_2000 |-> Unbound, fig_2000 |-> Unbound,
     data_2018 |-> Unbound, fig_2018 |-> Unbound,
     lc_comparison |-> Unbound, comparison_chart |-> Unbound,
     soc_analyzer |-> Unbound, fig_soc |-> Unbound,
     requests |-> 0,
     error |-> None]

\* One analyzer object kept at module level and used by every run.
AnalyzerOf_shared(run) == 1

\* lc_analyzer = LandcoverAnalyzer(glc_data) of line 103 is a local of the
\* run: every run has an object of its own.
AnalyzerOf(run) == run

\* The run ends with the exception that left main.
Failed(run, outcome) ==
    [run EXCEPT !.error = [tag |-> "error", at |-> run.pc, outcome |-> outcome],
                !.pc = "failed"]

\* The checks of a drawn rectangle with the size check left out.
Validate_boundary_only(geometry) ==
    IF ~geometry.in_boundary
    THEN [calls |-> << "selected_bbox_in_boundary" >>, verdict |-> "not in boundary"]
    ELSE [calls |-> << "selected_bbox_in_boundary" >>, verdict |-> "valid"]

\* Lines 89 to 100: the two checks in their order, the second made only
\* when the first passes, and which branch is taken.
Validate(geometry) ==
    IF geometry.too_large
    THEN [calls |-> << "selected_bbox_too_large" >>, verdict |-> "too large"]
    ELSE IF ~geometry.in_boundary
    THEN [calls |-> << "selected_bbox_too_large", "selected_bbox_in_boundary" >>,
          verdict |-> "not in boundary"]
    ELSE [calls |-> << "selected_bbox_too_large", "selected_bbox_in_boundary" >>,
          verdict |-> "valid"]

\* The year of the step a run is at.
Year(pc) == IF pc \in {"fetch_2000", "pie_2000"} THEN "2000" ELSE "2018"

-----------------------------------------------------------------------------
(* Idle values of the objects a specification does not exercise.           *)

LcIdle ==
    /\ lc_analyzer = LandcoverAnalyzer_init("Global-Land-Cover")
    /\ lc_result = NotCalled
    /\ lc_counts = Unbound
    /\ lc_calls = 0
    /\ lc_fetched = Unbound

CmpIdle ==
    /\ data_2000 = None
    /\ data_2018 = None
    /\ lc_comparison = NotCalled
    /\ comparison_chart = NotCalled

SocIdle ==
    /\ soc_info = [b1 |-> None]
    /\ soc_analyzer = CarbonStockAnalyzer_init("SOC-Stock-Change")
    /\ soc_result = NotCalled
    /\ soc_fetched = Unbound

DrawIdle ==
    /\ drawn_geometries = << >>
    /\ draw_events = << >>

AppIdle ==
    /\ app_service = [region \in Regions |->
                         [year \in {"2000", "2018"} |->
                             Dict(<< [k |-> "130", v |-> 120] >>)]]
    /\ app_analyzers = [run \in Runs |-> Unbound]
    /\ app_runs = [run \in Runs |->
                      Run([all_drawings |-> None, last_active_drawing |-> None])]

-----------------------------------------------------------------------------
(* SpecLC: one LandcoverAnalyzer, of src/processing.py with its histogram  *)
(* fetches and pie charts in any order, or of utils.py with its            *)
(* analyze_landcover calls.                                                *)

InitLC ==
    /\ \/ \E dataset \in Datasets : lc_analyzer = LandcoverAnalyzer_init(dataset)
       \/ lc_analyzer = utils_LandcoverAnalyzer_init
    /\ lc_result = NotCalled
    /\ lc_counts = Unbound
    /\ lc_calls = 0
    /\ lc_fetched = Unbound
    /\ CmpIdle
    /\ SocIdle
    /\ AppIdle
    /\ DrawIdle

\* lc_analyzer.calculate_frequency_histogram(geometry, year), the service answering.
LcCalculateFrequencyHistogram ==
    /\ lc_analyzer.class = "processing.LandcoverAnalyzer"
    /\ \E info \in LcServiceAnswers :
        LET call == LandcoverAnalyzer_calculate_frequency_histogram(lc_analyzer, info)
        IN  /\ lc_analyzer' = call.self
            /\ lc_result' = Call("calculate_frequency_histogram", call.outcome)
            /\ lc_calls' = 0
            /\ lc_fetched' = info.b1
            /\ UNCHANGED <<draw_vars, lc_counts, cmp_vars, soc_vars, app_vars>>

\* The same call with getInfo() raising: line 63 is never reached.
LcCalculateFrequencyHistogramFails ==
    /\ lc_analyzer.class = "processing.LandcoverAnalyzer"
    /\ lc_result' = Call("calculate_frequency_histogram", Raise("EEException", "getInfo"))
    /\ lc_calls' = 0
    /\ UNCHANGED <<draw_vars, lc_analyzer, lc_counts, lc_fetched, cmp_vars, soc_vars, app_vars>>

\* A chart call that uses the stored histogram up: it leaves self.data
\* empty behind.
LcGetPieChartPlotly_consuming ==
    /\ lc_analyzer.class = "processing.LandcoverAnalyzer"
    /\ lc_calls < MaxCalls
    /\ lc_result' = Call("get_pie_chart_plotly",
                          LandcoverAnalyzer_get_pie_chart_plotly(lc_analyzer))
    /\ lc_calls' = lc_calls + 1
    /\ lc_analyzer' = IF lc_analyzer.data.tag = "dict"
                       THEN [lc_analyzer EXCEPT !.data = Dict(<< >>)]
                       ELSE lc_analyzer
    /\ UNCHANGED <<draw_vars, lc_counts, lc_fetched, cmp_vars, soc_vars, app_vars>>

\* lc_analyzer.get_pie_chart_plotly(title): _prepare_data only reads
\* self.data.
LcGetPieChartPlotly ==
    /\ lc_analyzer.class = "processing.LandcoverAnalyzer"
    /\ lc_calls < MaxCalls
    /\ lc_result' = Call("get_pie_chart_plotly",
                          LandcoverAnalyzer_get_pie_chart_plotly(lc_analyzer))
    /\ lc_calls' = lc_calls + 1
    /\ UNCHANGED <<draw_vars, lc_analyzer, lc_counts, lc_fetched, cmp_vars, soc_vars, app_vars>>

\* utils.py: lc_analyzer.analyze_landcover(...), the service answering.
UtilsAnalyzeLandcover ==
    /\ lc_analyzer.class = "utils.LandcoverAnalyzer"
    /\ \E info \in LcServiceAnswers :
        /\ lc_counts' = info.b1
        /\ lc_result' = Call("analyze_landcover",
                              utils_LandcoverAnalyzer_analyze_landcover(info.b1, LandcoverInfo))
    /\ UNCHANGED <<draw_vars, lc_analyzer, lc_calls, lc_fetched, cmp_vars, soc_vars, app_vars>>

\* The same call with getInfo() raising: lc_counts is never bound.
UtilsAnalyzeLandcoverFails ==
    /\ lc_analyzer.class = "utils.LandcoverAnalyzer"
    /\ lc_counts' = Unbound
    /\ lc_result' = Call("analyze_landcover", Raise("EEException", "getInfo"))
    /\ UNCHANGED <<draw_vars, lc_analyzer, lc_calls, lc_fetched, cmp_vars, soc_vars, app_vars>>

NextLC ==
    \/ LcCalculateFrequencyHistogram
    \/ LcCalculateFrequencyHistogramFails
    \/ LcGetPieChartPlotly
    \/ UtilsAnalyzeLandcover
    \/ UtilsAnalyzeLandcoverFails

SpecLC == InitLC /\ [][NextLC]_vars

-----------------------------------------------------------------------------
(* SpecCmp: one LandcoverComparison built from two fetched histograms with  *)
(* one of the catalogs of CmpCatalogs, and its chart.                      *)

InitCmp ==
    /\ LcIdle
    /\ data_2000 \in CmpFetched
    /\ data_2018 \in CmpFetched
    /\ lc_comparison = NotCalled
    /\ comparison_chart = NotCalled
    /\ SocIdle
    /\ AppIdle
    /\ DrawIdle

\* lc_comparison = LandcoverComparison(data_2000, data_2018,
\*                     category_colors, class_names)
CmpConstruct ==
    /\ lc_comparison.call = "none"
    /\ \E catalog \in CmpCatalogs :
        lc_comparison' =
           Call("LandcoverComparison",
                LandcoverComparison_init(data_2000, data_2018,
                                         catalog.category_colors, catalog.class_names))
    /\ UNCHANGED <<draw_vars, lc_vars, data_2000, data_2018, comparison_chart, soc_vars, app_vars>>

\* comparison_chart = lc_comparison.generate_comparison_chart(title)
CmpGenerateComparisonChart ==
    /\ lc_comparison.call = "LandcoverComparison"
    /\ lc_comparison.outcome.kind = "return"
    /\ comparison_chart' =
           Call("generate_comparison_chart",
                LandcoverComparison_generate_comparison_chart(lc_comparison.outcome.value))
    /\ UNCHANGED <<draw_vars, lc_vars, data_2000, data_2018, lc_comparison, soc_vars, app_vars>>

NextCmp ==
    \/ CmpConstruct
    \/ CmpGenerateComparisonChart

SpecCmp == InitCmp /\ [][NextCmp]_vars

-----------------------------------------------------------------------------
(* SpecSoc: one CarbonStockAnalyzer for one region, its histogram fetches   *)
(* and stacked-bar charts in any order.  The service answers every fetch   *)
(* for the region with the same soc_info, or fails.                        *)

InitSoc ==
    /\ LcIdle
    /\ CmpIdle
    /\ soc_info \in SocServiceAnswers
    /\ soc_analyzer = CarbonStockAnalyzer_init("SOC-Stock-Change")
    /\ soc_result = NotCalled
    /\ soc_fetched = Unbound
    /\ AppIdle
    /\ DrawIdle

\* soc_analyzer.calculate_frequency_histogram(geometry), the service answering.
SocCalculateFrequencyHistogram ==
    LET call == CarbonStockAnalyzer_calculate_frequency_histogram(soc_analyzer, soc_info)
    IN  /\ soc_analyzer' = call.self
        /\ soc_result' = Call("calculate_frequency_histogram", call.outcome)
        /\ soc_fetched' = soc_info.b1
        /\ UNCHANGED <<draw_vars, lc_vars, cmp_vars, app_vars, soc_info>>

\* The same call with getInfo() raising: line 220 is never reached.
SocCalculateFrequencyHistogramFails ==
    /\ soc_result' = Call("calculate_frequency_histogram", Raise("EEException", "getInfo"))
    /\ UNCHANGED <<draw_vars, lc_vars, cmp_vars, app_vars, soc_info, soc_analyzer, soc_fetched>>

\* soc_analyzer.categorize_counts()
SocCategorizeCounts ==
    /\ soc_result' = Call("categorize_counts", CarbonStockAnalyzer_categorize_counts(soc_analyzer))
    /\ UNCHANGED <<draw_vars, lc_vars, cmp_vars, app_vars, soc_info, soc_analyzer, soc_fetched>>

\* soc_analyzer.get_stackbar_chart_plotly(title)
SocGetStackbarChartPlotly ==
    /\ soc_result' = Call("get_stackbar_chart_plotly",
                          CarbonStockAnalyzer_get_stackbar_chart_plotly(soc_analyzer))
    /\ UNCHANGED <<draw_vars, lc_vars, cmp_vars, app_vars, soc_info, soc_analyzer, soc_fetched>>

NextSoc ==
    \/ SocCalculateFrequencyHistogram
    \/ SocCalculateFrequencyHistogramFails
    \/ SocCategorizeCounts
    \/ SocGetStackbarChartPlotly

SpecSoc == InitSoc /\ [][NextSoc]_vars

-----------------------------------------------------------------------------
(* SpecApp: the runs of main, each with the rectangle its user drew, their  *)
(* steps interleaved in every order; a request to the service may fail.    *)

\* The service's histograms and the runs of main at the button, each with
\* what its map returned.
AppStart ==
    /\ app_service \in [Regions -> [{"2000", "2018"} -> AppLcHistograms]]
    /\ app_analyzers = [run \in Runs |-> Unbound]
    /\ \E outputs \in [Runs -> Outputs] :
           app_runs = [run \in Runs |-> Run(outputs[run])]

InitApp ==
    /\ LcIdle
    /\ CmpIdle
    /\ SocIdle
    /\ AppStart
    /\ DrawIdle

\* Lines 83 to 103: Submit is pressed, which the button allows when there is
\* a geojson; the rectangle is checked and, when both checks pass, the run
\* creates its LandcoverAnalyzer.
AppSubmit(r) ==
    LET run == app_runs[r]
        checked == Validate(run.geojson)
        submitted == [run EXCEPT !.trace = checked.calls]
    IN  /\ run.pc = "button"
        /\ run.geojson.tag # "None"
        /\ IF checked.verdict = "valid"
           THEN /\ app_runs' = [app_runs EXCEPT ![r] = [submitted EXCEPT !.pc = "fetch_2000"]]
                /\ app_analyzers' =
                       [app_analyzers EXCEPT
                           ![AnalyzerOf(r)] = LandcoverAnalyzer_init("Global-Land-Cover")]
           ELSE /\ app_runs' =
                       [app_runs EXCEPT
                           ![r] = [submitted EXCEPT
                                      !.warning = [tag |-> "warning", text |-> checked.verdict],
                                      !.pc = "done"]]
                /\ UNCHANGED app_analyzers
        /\ UNCHANGED <<draw_vars, lc_vars, cmp_vars, soc_vars, app_service>>

\* Lines 106 and 112: data = lc_analyzer.calculate_frequency_histogram(
\* geometry, year), for 2000 and then for 2018.
AppFetch(r) ==
    LET run == app_runs[r]
        a == AnalyzerOf(r)
    IN  /\ run.pc \in {"fetch_2000", "fetch_2018"}
        /\ \E answers \in Answers(app_service[run.geojson.region][Year(run.pc)]) :
            LET call == LandcoverAnalyzer_request(app_analyzers[a], answers)
                asked == [run EXCEPT !.requests = @ + call.requests,
                                     !.trace = Append(@, "calculate_frequency_histogram")]
            IN  /\ app_analyzers' = [app_analyzers EXCEPT ![a] = call.self]
                /\ app_runs' =
                       [app_runs EXCEPT
                           ![r] = IF call.outcome.kind = "raise"
                                  THEN Failed(asked, call.outcome)
                                  ELSE IF run.pc = "fetch_2000"
                                  THEN [asked EXCEPT !.data_2000 = call.outcome.value,
                                                     !.pc = "pie_2000"]
                                  ELSE [asked EXCEPT !.data_2018 = call.outcome.value,
                                                     !.pc = "pie_2018"]]
        /\ UNCHANGED <<draw_vars, lc_vars, cmp_vars, soc_vars, app_service>>

\* Lines 109 and 115: fig = lc_analyzer.get_pie_chart_plotly(title="").
AppPie(r) ==
    LET run == app_runs[r]
        outcome == LandcoverAnalyzer_get_pie_chart_plotly(app_analyzers[AnalyzerOf(r)])
        called == [run EXCEPT !.trace = Append(@, "get_pie_chart_plotly")]
    IN  /\ run.pc \in {"pie_2000", "pie_2018"}
        /\ app_runs' =
               [app_runs EXCEPT
                   ![r] = IF outcome.kind = "raise"
                          THEN Failed(called, outcome)
                          ELSE IF run.pc = "pie_2000"
                          THEN [called EXCEPT !.fig_2000 = outcome.value, !.pc = "fetch_2018"]
                          ELSE [called EXCEPT !.fig_2018 = outcome.value, !.pc = "compare"]]
        /\ UNCHANGED <<draw_vars, lc_vars, cmp_vars, soc_vars, app_service, app_analyzers>>

\* Lines 125 to 127: lc_comparison = LandcoverComparison(data_2000,
\* data_2018, lc_analyzer.class_colors, lc_analyzer.class_names).
AppCompare(r) ==
    LET run == app_runs[r]
        lc == app_analyzers[AnalyzerOf(r)]
        built == LandcoverComparison_init(run.data_2000, run.data_2018,
                                          GEEData_class_colors(lc.dataset),
                                          GEEData_class_names(lc.dataset))
        called == [run EXCEPT !.trace = Append(@, "LandcoverComparison")]
    IN  /\ run.pc = "compare"
        /\ app_runs' =
               [app_runs EXCEPT
                   ![r] = IF built.kind = "raise" THEN Failed(called, built)
                          ELSE [called EXCEPT
                                   !.lc_comparison = built.value,
                                   !.pc = "comparison_chart"]]
        /\ UNCHANGED <<draw_vars, lc_vars, cmp_vars, soc_vars, app_service, app_analyzers>>

\* A chart call that drops the categories without change from the change
\* record it reads.
AppComparisonChart_popping(r) ==
    LET run == app_runs[r]
        chart == LandcoverComparison_generate_comparison_chart(run.lc_comparison)
        charted == [run EXCEPT !.trace = Append(@, "generate_comparison_chart")]
        changes == run.lc_comparison.changes
        kept == Filter(changes, { changes[i] : i \in { j \in 1..Len(changes) :
                                                         changes[j].v # 0 } })
    IN  /\ run.pc = "comparison_chart"
        /\ app_runs' =
               [app_runs EXCEPT
                   ![r] = IF chart.kind = "raise" THEN Failed(charted, chart)
                          ELSE [charted EXCEPT
                                   !.lc_comparison = [@ EXCEPT !.changes = kept],
                                   !.comparison_chart = chart.value,
                                   !.soc_analyzer = CarbonStockAnalyzer_init("SOC-Stock-Change"),
                                   !.pc = "soc_fetch"]]
        /\ UNCHANGED <<draw_vars, lc_vars, cmp_vars, soc_vars, app_service, app_analyzers>>

\* Lines 130 to 137: comparison_chart =
\* lc_comparison.generate_comparison_chart(title=""), the chart is shown and
\* soc_analyzer = CarbonStockAnalyzer(soc_data) is created.
AppComparisonChart(r) ==
    LET run == app_runs[r]
        chart == LandcoverComparison_generate_comparison_chart(run.lc_comparison)
        charted == [run EXCEPT !.trace = Append(@, "generate_comparison_chart")]
    IN  /\ run.pc = "comparison_chart"
        /\ app_runs' =
               [app_runs EXCEPT
                   ![r] = IF chart.kind = "raise" THEN Failed(charted, chart)
                          ELSE [charted EXCEPT
                                   !.comparison_chart = chart.value,
                                   !.soc_analyzer = CarbonStockAnalyzer_init("SOC-Stock-Change"),
                                   !.pc = "soc_fetch"]]
        /\ UNCHANGED <<draw_vars, lc_vars, cmp_vars, soc_vars, app_service, app_analyzers>>

\* Line 140: soc_data = soc_analyzer.calculate_frequency_histogram(geometry).
AppSocFetch(r) ==
    LET run == app_runs[r]
    IN  /\ run.pc = "soc_fetch"
        /\ \E answers \in Answers(AppSocHistogram(run.geojson.region)) :
            LET call == CarbonStockAnalyzer_request(run.soc_analyzer, answers)
                asked == [run EXCEPT !.requests = @ + call.requests,
                                     !.trace = Append(@, "calculate_frequency_histogram"),
                                     !.soc_analyzer = call.self]
            IN  app_runs' =
                    [app_runs EXCEPT
                        ![r] = IF call.outcome.kind = "raise"
                               THEN Failed(asked, call.outcome)
                               ELSE [asked EXCEPT !.pc = "soc_chart"]]
        /\ UNCHANGED <<draw_vars, lc_vars, cmp_vars, soc_vars, app_service, app_analyzers>>

\* Line 141: fig_soc = soc_analyzer.get_stackbar_chart_plotly(title="").
AppSocChart(r) ==
    LET run == app_runs[r]
        outcome == CarbonStockAnalyzer_get_stackbar_chart_plotly(run.soc_analyzer)
        called == [run EXCEPT !.trace = Append(@, "get_stackbar_chart_plotly")]
    IN  /\ run.pc = "soc_chart"
        /\ app_runs' =
               [app_runs EXCEPT
                   ![r] = IF outcome.kind = "raise"
                          THEN Failed(called, outcome)
                          ELSE [called EXCEPT !.fig_soc = outcome.value, !.pc = "done"]]
        /\ UNCHANGED <<draw_vars, lc_vars, cmp_vars, soc_vars, app_service, app_analyzers>>

NextApp ==
    \E r \in Runs :
        \/ AppSubmit(r)
        \/ AppFetch(r)
        \/ AppPie(r)
        \/ AppCompare(r)
        \/ AppComparisonChart(r)
        \/ AppSocFetch(r)
        \/ AppSocChart(r)

SpecApp == InitApp /\ [][NextApp]_vars

-----------------------------------------------------------------------------
(* SpecLcApp: the two uses of a processing LandcoverAnalyzer side by side:  *)
(* either one analyzer called in any order (the behaviours of SpecLC), or   *)
(* the runs of main with the analyzers they create (the behaviours of       *)
(* SpecApp), where there is no analyzer outside the runs.                   *)

LcAbsent ==
    /\ lc_analyzer = [class |-> "none"]
    /\ lc_result = NotCalled
    /\ lc_counts = Unbound
    /\ lc_calls = 0
    /\ lc_fetched = Unbound

InitLcApp ==
    \/ InitLC
    \/ LcAbsent /\ CmpIdle /\ SocIdle /\ AppStart /\ DrawIdle

NextLcApp ==
    \/ NextLC
    \/ NextApp

SpecLcApp == InitLcApp /\ [][NextLcApp]_vars

-----------------------------------------------------------------------------
(* SpecLcSoc: the analyzers of both classes of src/processing.py, each      *)
(* called in any order.  Either a LandcoverAnalyzer under every answer of   *)
(* the service next to a CarbonStockAnalyzer whose region has no band       *)
(* "b1", or a CarbonStockAnalyzer under every answer of the service.        *)

\* The service's answer for the carbon analyzer's region, and the analyzer
\* as constructed.
SocStart ==
    /\ soc_info \in SocServiceAnswers
    /\ soc_analyzer = CarbonStockAnalyzer_init("SOC-Stock-Change")
    /\ soc_result = NotCalled
    /\ soc_fetched = Unbound

InitLcSoc ==
    \/ InitLC
    \/ LcAbsent /\ CmpIdle /\ SocStart /\ AppIdle /\ DrawIdle

NextLcSoc ==
    \/ NextLC
    \/ NextSoc

SpecLcSoc == InitLcSoc /\ [][NextLcSoc]_vars

-----------------------------------------------------------------------------
(* SpecDraw: one GeometryDrawer of utils.py and the draw events its         *)
(* DrawControl reports, in any order.                                       *)

InitDraw ==
    /\ LcIdle
    /\ CmpIdle
    /\ SocIdle
    /\ AppIdle
    /\ drawn_geometries = GeometryDrawer_init
    /\ draw_events = << >>

\* The DrawControl calls handle_draw for a feature: the event names the
\* feature's id.
HandleDraw ==
    /\ Len(draw_events) < MaxEvents
    /\ \E action \in DrawActions, geo_json \in GeoJsons :
        LET event == [id |-> geo_json.id]
        IN  /\ drawn_geometries' =
                   GeometryDrawer_handle_draw(drawn_geometries, event, action, geo_json)
            /\ draw_events' = Append(draw_events,
                                     [action |-> action, id |-> event.id, geo_json |-> geo_json])
    /\ UNCHANGED <<lc_vars, cmp_vars, soc_vars, app_vars>>

NextDraw == HandleDraw

SpecDraw == InitDraw /\ [][NextDraw]_vars


-----------------------------------------------------------------------------
(* Properties of LandcoverAnalyzer._prepare_data (normalize), checked under *)
(* SpecLC.                                                                 *)

Abs(x) == IF x >= 0 THEN x ELSE 0 - x

\* x is the quotient a / b (a >= 0, b > 0) to the nearest unit: stated on the
\* integer and the fractional part, each small enough to multiply.
NearestUnit(x, a, b) ==
    /\ x \div Resolution = a \div b
    /\ 2 * Abs((x % Resolution) * b - (a % b) * Resolution) <= b

\* 1e-6 of 100, in units.
Tolerance == (100 * Resolution) \div (1000 * 1000)

\* The last call on lc_analyzer was get_pie_chart_plotly on a histogram.
PieCalledOnDict ==
    /\ lc_result.call = "get_pie_chart_plotly"
    /\ lc_analyzer.data.tag = "dict"

H == lc_analyzer.data.items

AllKeysMapped ==
    \A i \in 1..Len(H) :
        /\ H[i].k \in DOMAIN GEEData_class_names(lc_analyzer.dataset)
        /\ H[i].k \in DOMAIN GEEData_class_colors(lc_analyzer.dataset)

\* C1: for a non-empty histogram with a positive total whose keys are all in
\* the class-name and class-colour mappings, _prepare_data returns and its
\* percentages sum to 100 within the relative tolerance 1e-6.
C1_PercentagesSumTo100 ==
    (PieCalledOnDict /\ Len(H) > 0 /\ sum(Values(H)) > 0 /\ AllKeysMapped) =>
        /\ lc_result.outcome.kind = "return"
        /\ Abs(sum(lc_result.outcome.value.values) - 100 * Resolution) <= Tolerance

\* A chart of two categories whose percentages are rounded quotients
\* (50 and 100 of 150).
C1_Witness ==
    /\ PieCalledOnDict /\ AllKeysMapped
    /\ lc_result.outcome.kind = "return"
    /\ Len(H) = 2
    /\ \E i \in 1..2 : lc_result.outcome.value.values[i] % Resolution # 0

\* C2: the three sequences _prepare_data returns have the histogram's length
\* and at every position hold the class name, the percentage
\* 100 * count / total and the class colour of the key at that position of the
\* histogram's iteration order.
C2_AlignedWithHistogram ==
    (PieCalledOnDict /\ lc_result.outcome.kind = "return") =>
        LET fig == lc_result.outcome.value
            total == sum(Values(H))
        IN  /\ Len(fig.labels) = Len(H)
            /\ Len(fig.values) = Len(H)
            /\ Len(fig.marker_colors) = Len(H)
            /\ \A i \in 1..Len(H) :
                /\ fig.labels[i] = GEEData_class_names(lc_analyzer.dataset)[H[i].k]
                /\ fig.marker_colors[i] = GEEData_class_colors(lc_analyzer.dataset)[H[i].k]
                /\ NearestUnit(fig.values[i], 100 * H[i].v, total)

\* A chart of the histogram {"190": 100, "130": 50}: two keys, not in the
\* catalog's order, with different counts.
C2_Witness ==
    /\ PieCalledOnDict
    /\ lc_result.outcome.kind = "return"
    /\ H = << [k |-> "190", v |-> 100], [k |-> "130", v |-> 50] >>
    /\ lc_result.outcome.value.labels = << "Urban areas", "Grassland" >>

SomeKeyUnmapped ==
    \E i \in 1..Len(H) :
        \/ H[i].k \notin DOMAIN GEEData_class_names(lc_analyzer.dataset)
        \/ H[i].k \notin DOMAIN GEEData_class_colors(lc_analyzer.dataset)

\* utils.py: the last call on lc_analyzer was analyze_landcover and the
\* service answered with a histogram.
UtilsCalledOnDict ==
    /\ lc_result.call = "analyze_landcover"
    /\ lc_counts.tag = "dict"

UtilsUnmapped == { i \in 1..Len(lc_counts.items) :
                     lc_counts.items[i].k \notin DOMAIN LandcoverInfo }

\* C3: when a key of the histogram is absent from the class-name or the
\* class-colour mapping, _prepare_data raises KeyError (the code's form of
\* MissingClassMetadata) for an absent key and returns no distribution.
\* analyze_landcover of utils.py, given a histogram with a key absent from
\* landcover_info, returns no rows either: it raises KeyError for the first
\* absent key, except that it divides before it looks up, so that a histogram
\* whose total is 0 raises ZeroDivisionError first.
C3_UnmappedKeyRaises ==
    /\ (PieCalledOnDict /\ SomeKeyUnmapped) =>
            /\ lc_result.outcome.kind = "raise"
            /\ lc_result.outcome.exc = "KeyError"
            /\ \E i \in 1..Len(H) :
                /\ lc_result.outcome.arg = H[i].k
                /\ H[i].k \notin DOMAIN GEEData_class_names(lc_analyzer.dataset)
    /\ (UtilsCalledOnDict /\ UtilsUnmapped # {}) =>
            lc_result.outcome =
                IF sum(Values(lc_counts.items)) = 0
                THEN Raise("ZeroDivisionError", "division by zero")
                ELSE Raise("KeyError", lc_counts.items[Min(UtilsUnmapped)].k)

\* The land-cover catalog, a histogram with a known key before the unknown
\* "999", both with pixels: the chart call raised KeyError("999").
C3_Witness ==
    /\ PieCalledOnDict
    /\ lc_analyzer.dataset = "Global-Land-Cover"
    /\ H = << [k |-> "130", v |-> 100], [k |-> "999", v |-> 50] >>
    /\ lc_result.outcome = Raise("KeyError", "999")

\* C4 as claimed: whenever the histogram's total is 0, with no keys or with
\* keys that all count 0, _prepare_data fails and returns no distribution.
C4_ZeroTotalFails ==
    (PieCalledOnDict /\ sum(Values(H)) = 0) => lc_result.outcome.kind = "raise"

\* What the code does: keys that all count 0 raise ZeroDivisionError (or
\* KeyError when one is unmapped), and the histogram {} returns three empty
\* sequences.
C4_ZeroCountsRaise ==
    (PieCalledOnDict /\ sum(Values(H)) = 0 /\ Len(H) > 0) =>
        /\ lc_result.outcome.kind = "raise"
        /\ lc_result.outcome.exc \in {"ZeroDivisionError", "KeyError"}

C4_EmptyHistogramReturns ==
    (PieCalledOnDict /\ Len(H) = 0) =>
        lc_result.outcome =
            Return([labels |-> << >>, values |-> << >>, marker_colors |-> << >>])

\* get_pie_chart_plotly was called on the histogram {}.
C4_Witness ==
    /\ PieCalledOnDict
    /\ Len(H) = 0

-----------------------------------------------------------------------------
(* Properties of successive calls on one LandcoverAnalyzer, checked under   *)
(* SpecLC.                                                                 *)

\* C14: a chart call leaves the analyzer, and with it the stored histogram,
\* as it was, and a chart call that follows another with no fetch in between
\* ends as the one before it did: the same labels, percentages and colours,
\* or the same exception.
C14_NormalizeTwiceIsTheSame ==
    [][(lc_calls' = lc_calls + 1) =>
           /\ lc_analyzer' = lc_analyzer
           /\ lc_calls >= 1 => lc_result' = lc_result]_vars

\* The second chart of a histogram of two keys, with no fetch since the first.
C14_Witness ==
    /\ PieCalledOnDict
    /\ lc_calls = 2
    /\ lc_result.outcome.kind = "return"
    /\ Len(H) = 2

-----------------------------------------------------------------------------
(* Properties of the runs of main, checked under SpecApp.                   *)

\* The histogram the service holds for the rectangle of a run, and the
\* figure of that histogram alone.
OwnHistogram(r, year) == app_service[app_runs[r].geojson.region][year]
OwnChart(r, year) ==
    LandcoverAnalyzer_get_pie_chart_plotly(
        [LandcoverAnalyzer_init("Global-Land-Cover") EXCEPT !.data = OwnHistogram(r, year)]).value

\* C15: in every interleaving of the steps of two runs, the histogram a run
\* has fetched for a year is the one of its own rectangle, and the figure it
\* has drawn for that year is the figure of that histogram, whatever the
\* other run has fetched or drawn in the meantime.
C15_RunsAreIndependent ==
    \A r \in Runs :
        /\ app_runs[r].data_2000 # Unbound => app_runs[r].data_2000 = OwnHistogram(r, "2000")
        /\ app_runs[r].fig_2000 # Unbound => app_runs[r].fig_2000 = OwnChart(r, "2000")
        /\ app_runs[r].data_2018 # Unbound => app_runs[r].data_2018 = OwnHistogram(r, "2018")
        /\ app_runs[r].fig_2018 # Unbound => app_runs[r].fig_2018 = OwnChart(r, "2018")

\* Two runs for different rectangles with different histograms: the first
\* has fetched and not yet drawn, the second has drawn its own figure.
C15_Witness ==
    /\ app_runs[1].pc = "pie_2000"
    /\ app_runs[2].pc = "fetch_2018"
    /\ app_runs[1].geojson.region # app_runs[2].geojson.region
    /\ OwnHistogram(1, "2000") # OwnHistogram(2, "2000")
    /\ app_runs[2].fig_2000 # OwnChart(1, "2000")

\* The calls of a name a run has made so far.
CallsOf(r, name) == Len(SelectSeq(app_runs[r].trace, LAMBDA e : e = name))

\* A run ended by the exception of a request to the service.
FetchFailed(r) ==
    /\ app_runs[r].pc = "failed"
    /\ app_runs[r].error.at \in {"fetch_2000", "fetch_2018", "soc_fetch"}

\* C16: every call of calculate_frequency_histogram makes one request to the
\* service, and when that request raises, the exception leaves the call and
\* main as it is, nothing is charted after it, and the analyzer holds what
\* it held before the call: no data attribute before the first fetch, the
\* histogram of 2000 when the fetch of 2018 fails, None in the
\* CarbonStockAnalyzer.
C16_FetchFailurePropagates ==
    \A r \in Runs :
        /\ app_runs[r].requests = CallsOf(r, "calculate_frequency_histogram")
        /\ FetchFailed(r) =>
            LET run == app_runs[r]
                lc == app_analyzers[AnalyzerOf(r)]
            IN  /\ run.error.outcome = Raise("EEException", "getInfo")
                /\ run.trace[Len(run.trace)] = "calculate_frequency_histogram"
                /\ run.error.at = "fetch_2000" =>
                       lc.data = NoAttribute /\ run.data_2000 = Unbound
                /\ run.error.at = "fetch_2018" =>
                       /\ lc.data = OwnHistogram(r, "2000")
                       /\ run.data_2018 = Unbound /\ run.fig_2018 = Unbound
                /\ run.error.at = "soc_fetch" =>
                       run.soc_analyzer.data = None /\ run.fig_soc = Unbound

\* A run whose fetch of 2018 failed after the histogram of 2000 was stored
\* and charted.
C16_Witness ==
    \E r \in Runs :
        /\ FetchFailed(r)
        /\ app_runs[r].error.at = "fetch_2018"
        /\ app_runs[r].requests = 2
        /\ app_analyzers[AnalyzerOf(r)].data.tag = "dict"

\* The steps of a run that fetch or chart.
CoreCalls ==
    {"calculate_frequency_histogram", "get_pie_chart_plotly", "LandcoverComparison",
     "generate_comparison_chart", "get_stackbar_chart_plotly"}

\* C17: a run without a drawn rectangle stays at the disabled button and
\* makes no call; a run whose rectangle is too large or outside the boundary
\* makes no fetch and no chart, creates no analyzer and ends with a warning;
\* and in every run that fetches or charts, both checks were made, in their
\* order, before its first such call.
C17_ValidationPrecedesCore ==
    \A r \in Runs :
        LET run == app_runs[r]
            core == { i \in 1..Len(run.trace) : run.trace[i] \in CoreCalls }
        IN  /\ run.geojson.tag = "None" =>
                run.pc = "button" /\ run.trace = << >> /\ run.requests = 0
            /\ (run.geojson.tag # "None"
                /\ (run.geojson.too_large \/ ~run.geojson.in_boundary)) =>
                /\ core = {}
                /\ run.requests = 0
                /\ run.pc \in {"button", "done"}
                /\ run.pc = "done" => run.warning.tag = "warning"
            /\ core # {} =>
                /\ Len(run.trace) >= 3
                /\ run.trace[1] = "selected_bbox_too_large"
                /\ run.trace[2] = "selected_bbox_in_boundary"
                /\ \A i \in core : i >= 3

\* One run was refused for its size while the other, checked, has fetched.
C17_Witness ==
    /\ app_runs[1].geojson.tag # "None"
    /\ app_runs[1].geojson.too_large
    /\ app_runs[1].pc = "done"
    /\ app_runs[1].trace = << "selected_bbox_too_large" >>
    /\ app_runs[2].pc = "pie_2000"
    /\ app_runs[2].requests = 1

-----------------------------------------------------------------------------
(* Properties of LandcoverComparison (computeChange), checked under        *)
(* SpecCmp.                                                                *)

\* The constructor was called on two histograms.
CmpConstructedOnDicts ==
    /\ lc_comparison.call = "LandcoverComparison"
    /\ data_2000.tag = "dict"
    /\ data_2018.tag = "dict"

\* The constructor returned an object.
CmpBuilt ==
    /\ lc_comparison.call = "LandcoverComparison"
    /\ lc_comparison.outcome.kind = "return"

Baseline == data_2000.items
Comparison == data_2018.items
Changes == lc_comparison.outcome.value.changes

\* x is d / b * 100 for b > 0: 100 times the quotient to the nearest unit,
\* with the sign of d.
IsPercentChange(x, d, b) ==
    /\ x % 100 = 0
    /\ IF d >= 0 THEN x >= 0 /\ NearestUnit(x \div 100, d, b)
       ELSE x <= 0 /\ NearestUnit((0 - x) \div 100, 0 - d, b)

\* C5: the change recorded for a baseline category with a non-zero baseline
\* count that the comparison histogram holds is
\* (comparison - baseline) / baseline * 100; when every baseline category is
\* such a category the record is built and holds them all.
C5_ChangeIsPercentOfBaseline ==
    /\ CmpBuilt =>
        \A i \in 1..Len(Baseline) :
            (Baseline[i].v # 0 /\ Has(Comparison, Baseline[i].k)) =>
                /\ Has(Changes, Baseline[i].k)
                /\ IsPercentChange(Get(Changes, Baseline[i].k),
                                   Get(Comparison, Baseline[i].k) - Baseline[i].v,
                                   Baseline[i].v)
    /\ (/\ CmpConstructedOnDicts
        /\ \A i \in 1..Len(Baseline) :
               Baseline[i].v # 0 /\ Has(Comparison, Baseline[i].k)) => CmpBuilt

\* A record with a decrease that is no whole number of units: 120 -> 50 is
\* -58.333333.
C5_Witness ==
    /\ CmpBuilt
    /\ \E i \in 1..Len(Baseline) :
        /\ Baseline[i].v = 120
        /\ Get(Comparison, Baseline[i].k) = 50
        /\ Get(Changes, Baseline[i].k) < 0
        /\ Get(Changes, Baseline[i].k) % Resolution # 0

CmpCharted ==
    /\ CmpBuilt
    /\ comparison_chart.call = "generate_comparison_chart"
    /\ comparison_chart.outcome.kind = "return"

Chart == comparison_chart.outcome.value

BaselineKeys == { Baseline[i].k : i \in 1..Len(Baseline) }

SpecExampleInput ==
    /\ data_2000 = Dict(<< [k |-> "130", v |-> 100], [k |-> "190", v |-> 50] >>)
    /\ data_2018 = Dict(<< [k |-> "130", v |-> 120], [k |-> "190", v |-> 50] >>)

\* C6: the chart series holds exactly the baseline categories whose computed
\* change is not 0, each once with its name and its change (for the baseline
\* {130: 100, 190: 50} and the comparison {130: 120, 190: 50}: only 130, with
\* +20), and every baseline category, those with change 0 included, is in
\* the change record before and after the chart is generated.
C6_SeriesDropsZeroChanges ==
    /\ CmpBuilt => { Changes[i].k : i \in 1..Len(Changes) } = BaselineKeys
    /\ CmpCharted =>
        LET nonzero == { c \in BaselineKeys : Get(Changes, c) # 0 }
        IN  /\ Len(Chart.x) = Cardinality(nonzero)
            /\ Len(Chart.y) = Cardinality(nonzero)
            /\ { << Chart.x[i], Chart.y[i] >> : i \in 1..Len(Chart.y) }
                 = { << ClassNameOrCode(lc_comparison.outcome.value.class_names, c),
                        Get(Changes, c) >> : c \in nonzero }
    /\ (CmpCharted /\ SpecExampleInput) =>
        /\ Chart.x = << "Grassland" >>
        /\ Chart.y = << 20 * Resolution >>
        /\ Get(Changes, "190") = 0

\* The chart of the example: one bar, two recorded changes.
C6_Witness ==
    /\ CmpCharted
    /\ SpecExampleInput
    /\ Len(Chart.y) = 1
    /\ Len(Changes) = 2

\* C7 as claimed: with a baseline count of 0 the computation does not end in
\* a division fault, and no number is recorded as the change of that
\* category.
C7_ZeroBaselineIsSignalled ==
    (CmpConstructedOnDicts /\ \E i \in 1..Len(Baseline) : Baseline[i].v = 0) =>
        /\ ~(lc_comparison.outcome.kind = "raise"
             /\ lc_comparison.outcome.exc = "ZeroDivisionError")
        /\ lc_comparison.outcome.kind = "return" =>
               \A i \in 1..Len(Baseline) : Baseline[i].v = 0 => ~Has(Changes, Baseline[i].k)

\* What the code does: no object is built, so no chart series exists; the
\* exception is ZeroDivisionError unless an earlier category raised KeyError.
C7_ZeroBaselineRaises ==
    (CmpConstructedOnDicts /\ \E i \in 1..Len(Baseline) : Baseline[i].v = 0) =>
        /\ lc_comparison.outcome.kind = "raise"
        /\ lc_comparison.outcome.exc \in {"ZeroDivisionError", "KeyError"}
        /\ comparison_chart.call = "none"

\* The constructor called with baseline {"130": 0}, comparison {"130": 50}.
C7_Witness ==
    /\ CmpConstructedOnDicts
    /\ Baseline = << [k |-> "130", v |-> 0] >>
    /\ Comparison = << [k |-> "130", v |-> 50] >>

\* C8 as claimed: with positive baseline counts throughout, a baseline
\* category absent from the comparison histogram does not make the
\* computation fail and gets the change -100.
C8_AbsentCategoryCountsZero ==
    (/\ CmpConstructedOnDicts
     /\ \A i \in 1..Len(Baseline) : Baseline[i].v > 0) =>
        \A i \in 1..Len(Baseline) :
            ~Has(Comparison, Baseline[i].k) =>
                /\ CmpBuilt
                /\ Get(Changes, Baseline[i].k) = 0 - 100 * Resolution

\* What the code does: the lookup of line 153 raises KeyError for the first
\* baseline category the comparison histogram lacks.
C8_AbsentCategoryRaises ==
    (/\ CmpConstructedOnDicts
     /\ \A i \in 1..Len(Baseline) : Baseline[i].v > 0
     /\ \E i \in 1..Len(Baseline) : ~Has(Comparison, Baseline[i].k)) =>
        /\ lc_comparison.outcome.kind = "raise"
        /\ lc_comparison.outcome.exc = "KeyError"
        /\ ~Has(Comparison, lc_comparison.outcome.arg)

\* The constructor called with baseline {"130": 100, "190": 50} and
\* comparison {"130": 120}.
C8_Witness ==
    /\ CmpConstructedOnDicts
    /\ Baseline = << [k |-> "130", v |-> 100], [k |-> "190", v |-> 50] >>
    /\ Comparison = << [k |-> "130", v |-> 120] >>

\* generate_comparison_chart was called on the object the constructor built.
CmpChartCalled ==
    /\ CmpBuilt
    /\ comparison_chart.call = "generate_comparison_chart"

Cmp == lc_comparison.outcome.value

\* The categories of the series that have no display name, no colour.
Unnamed == { c \in BaselineKeys : Get(Changes, c) # 0 /\ c \notin DOMAIN Cmp.class_names }
Uncoloured == { c \in BaselineKeys : Get(Changes, c) # 0 /\ c \notin DOMAIN Cmp.category_colors }

\* C13 as claimed: when a category of the series has no display name or no
\* colour in the mappings the comparison was built with, the chart call fails
\* with KeyError (the code's form of UnknownCategory), and no series it
\* returns shows a raw category code in place of a display name.
C13_NoDefaultForMissingName ==
    /\ (CmpChartCalled /\ (Unnamed # {} \/ Uncoloured # {})) =>
        /\ comparison_chart.outcome.kind = "raise"
        /\ comparison_chart.outcome.exc = "KeyError"
    /\ CmpCharted =>
        \A i \in 1..Len(Chart.x) : Chart.x[i] \notin BaselineKeys

\* What the code does: a missing colour raises KeyError for the first
\* uncoloured category of the series; otherwise the chart is returned, and a
\* category without a display name is labelled with its code.
C13_MissingColourRaises ==
    /\ (CmpChartCalled /\ Uncoloured # {}) =>
        /\ comparison_chart.outcome.kind = "raise"
        /\ comparison_chart.outcome.exc = "KeyError"
        /\ comparison_chart.outcome.arg \in Uncoloured
    /\ (CmpChartCalled /\ Uncoloured = {}) =>
        /\ comparison_chart.outcome.kind = "return"
        /\ \A c \in Unnamed : \E i \in 1..Len(Chart.x) : Chart.x[i] = c /\ Chart.ticktext[i] = c

\* The chart was asked of a comparison built with the colour but not the name
\* of "190", whose count went from 100 to 120.
C13_Witness ==
    /\ CmpChartCalled
    /\ Baseline = << [k |-> "190", v |-> 100] >>
    /\ Comparison = << [k |-> "190", v |-> 120] >>
    /\ Unnamed = {"190"}
    /\ Uncoloured = {}

\* The baseline keys whose recorded change is not 0, in the baseline's order.
Retained == Filter(Keys(Baseline), { c \in BaselineKeys : Get(Changes, c) # 0 })

\* text is f"{y:.2f}": the sign of y and the hundredths nearest to it.
IsTwoDecimals(text, y) ==
    /\ text.negative = (y < 0)
    /\ 2 * Abs(text.hundredths * (Resolution \div 100) - Abs(y)) <= Resolution \div 100

\* C18: the series of the chart has one position per retained category, in
\* the order of the baseline histogram's keys, and at each position the
\* label, the value, the colour, the formatted text and the tick text are
\* those of that one category (the label being the display name, or the code
\* where C13's default applies).
C18_SeriesFollowsBaselineOrder ==
    CmpCharted =>
        /\ Len(Chart.x) = Len(Retained)
        /\ Len(Chart.y) = Len(Retained)
        /\ Len(Chart.marker_color) = Len(Retained)
        /\ Len(Chart.text) = Len(Retained)
        /\ Len(Chart.ticktext) = Len(Retained)
        /\ \A i \in 1..Len(Retained) :
            /\ Chart.x[i] = IF Retained[i] \in DOMAIN Cmp.class_names
                            THEN Cmp.class_names[Retained[i]] ELSE Retained[i]
            /\ Chart.y[i] = Get(Changes, Retained[i])
            /\ Chart.marker_color[i] = Cmp.category_colors[Retained[i]]
            /\ IsTwoDecimals(Chart.text[i], Get(Changes, Retained[i]))
            /\ Chart.ticktext[i] = Chart.x[i]
            /\ Chart.tickvals[i] = i - 1

\* The chart of baseline {"190": 50, "130": 100} and comparison
\* {"130": 120, "190": 100}: two bars, in the baseline's order.
C18_Witness ==
    /\ CmpCharted
    /\ Baseline = << [k |-> "190", v |-> 50], [k |-> "130", v |-> 100] >>
    /\ Comparison = << [k |-> "130", v |-> 120], [k |-> "190", v |-> 100] >>
    /\ Chart.y = << 100 * Resolution, 20 * Resolution >>
    /\ Chart.marker_color = << "#c31400", Cmp.category_colors["130"] >>

\* The categories that only the comparison histogram holds.
ComparisonOnly ==
    IF data_2018.tag = "dict"
    THEN { Comparison[i].k : i \in 1..Len(Comparison) } \ BaselineKeys
    ELSE {}

\* C19: the object the constructor builds has the baseline histogram's keys,
\* in their order, as its categories and as the keys of its change record,
\* whatever other keys the comparison histogram holds; and no position of
\* the chart's series stands for a category of the comparison histogram
\* alone.
C19_UniverseIsBaselineKeys ==
    /\ CmpBuilt =>
        /\ Cmp.categories = Keys(Baseline)
        /\ Keys(Changes) = Keys(Baseline)
        /\ \A c \in ComparisonOnly : ~Has(Changes, c)
    /\ CmpCharted =>
        \A i \in 1..Len(Chart.x) :
            \A c \in ComparisonOnly :
                Chart.x[i] # ClassNameOrCode(Cmp.class_names, c)

\* The chart of baseline {"130": 100} and comparison {"130": 120, "190": 50}:
\* one bar, for "130".
C19_Witness ==
    /\ CmpCharted
    /\ Baseline = << [k |-> "130", v |-> 100] >>
    /\ Comparison = << [k |-> "130", v |-> 120], [k |-> "190", v |-> 50] >>
    /\ Keys(Changes) = << "130" >>
    /\ Len(Chart.x) = 1

-----------------------------------------------------------------------------
(* Properties of CarbonStockAnalyzer (classifyCarbonStock), checked under   *)
(* SpecSoc.                                                                *)

S == soc_analyzer.data.items

\* The bucket the thresholds -2.5 and 2.5 assign to each key that is a
\* number, read off the key itself.
BucketOf(key) ==
    CASE key \in {"-10"} -> "Loss"
      [] key \in {"-2.5", "0", "2.5"} -> "NoChange"
      [] key \in {"10"} -> "Gain"
      [] OTHER -> "none"

\* The pixels and the keys of the histogram that belong to a bucket.
PixelsOf(bucket) == sum(Values(SelectSeq(S, LAMBDA e : BucketOf(e.k) = bucket)))
KeysOf(bucket) == Len(SelectSeq(S, LAMBDA e : BucketOf(e.k) = bucket))

SocCharted ==
    /\ soc_result.call = "get_stackbar_chart_plotly"
    /\ soc_result.outcome.kind = "return"

SocChart == soc_result.outcome.value

SocExampleInput ==
    soc_analyzer.data =
        Dict(<< [k |-> "-10", v |-> 5], [k |-> "0", v |-> 3], [k |-> "10", v |-> 2] >>)

\* C9 as claimed: each bar of the chart is the sum of the pixel counts of the
\* keys in its bucket and the total is the sum of all counts, so the
\* histogram {"-10": 5, "0": 3, "10": 2} gives Loss = 5 (50%), NoChange = 3
\* (30%), Gain = 2 (20%) and total = 10.
C9_BucketsWeighPixels ==
    /\ SocCharted =>
        /\ SocChart.bars[1].y = PixelsOf("Loss")
        /\ SocChart.bars[2].y = PixelsOf("NoChange")
        /\ SocChart.bars[3].y = PixelsOf("Gain")
    /\ (SocCharted /\ SocExampleInput) =>
        /\ SocChart.total = 10
        /\ SocChart.percentages = << 50 * Resolution, 30 * Resolution, 20 * Resolution >>

\* What the code does: each bar is the number of keys in its bucket, so the
\* example gives 1, 1, 1 of a total of 3 and 33.33% each.
C9_BucketsCountKeys ==
    /\ SocCharted =>
        /\ SocChart.bars[1].y = KeysOf("Loss")
        /\ SocChart.bars[2].y = KeysOf("NoChange")
        /\ SocChart.bars[3].y = KeysOf("Gain")
    /\ (SocCharted /\ SocExampleInput) =>
        /\ SocChart.total = 3
        /\ \A i \in 1..3 : SocChart.bars[i].text = [negative |-> FALSE, hundredths |-> 3333]

\* The chart of the example histogram.
C9_Witness ==
    /\ SocCharted
    /\ SocExampleInput

SocCategorized ==
    /\ soc_result.call = "categorize_counts"
    /\ soc_result.outcome.kind = "return"

Buckets == soc_result.outcome.value

\* C10 as claimed: every key of the histogram is counted in exactly one
\* bucket, the one the thresholds assign (Loss below -2.5, NoChange from -2.5
\* to 2.5 with both ends, Gain above 2.5), so the three counts add up to the
\* number of keys classified.
C10_EveryKeyInOneBucket ==
    SocCategorized =>
        /\ Buckets.losses = KeysOf("Loss")
        /\ Buckets.no_change = KeysOf("NoChange")
        /\ Buckets.gains = KeysOf("Gain")
        /\ Buckets.losses + Buckets.no_change + Buckets.gains = Len(S)

\* What the code does: the keys that are numbers are counted as claimed, and
\* a key that float() reads as NaN is counted in no bucket.
C10_NumbersInOneBucket ==
    SocCategorized =>
        /\ Buckets.losses = KeysOf("Loss")
        /\ Buckets.no_change = KeysOf("NoChange")
        /\ Buckets.gains = KeysOf("Gain")
        /\ Buckets.losses + Buckets.no_change + Buckets.gains
             = Len(SelectSeq(S, LAMBDA e : e.k # "nan"))

\* categorize_counts returned for a histogram holding both boundary keys.
C10_Witness ==
    /\ SocCategorized
    /\ \E i, j \in 1..Len(S) : S[i].k = "-2.5" /\ S[j].k = "2.5"

\* The last call on soc_analyzer was get_stackbar_chart_plotly on a histogram.
SocChartCalledOnDict ==
    /\ soc_result.call = "get_stackbar_chart_plotly"
    /\ soc_analyzer.data.tag = "dict"

\* C11: on a histogram with no keys the three counts add up to a total of 0,
\* and get_stackbar_chart_plotly raises ZeroDivisionError at its first
\* division (the code's form of EmptyHistogram): it returns no figure and no
\* percentages.  The same holds whenever no key falls in a bucket.
C11_NoKeysFails ==
    (SocChartCalledOnDict /\ \A i \in 1..Len(S) : S[i].k = "nan") =>
        soc_result.outcome = Raise("ZeroDivisionError", "division by zero")

\* The chart was asked for after the service answered with the histogram {}.
C11_Witness ==
    /\ SocChartCalledOnDict
    /\ S = << >>
    /\ soc_result.outcome.kind = "raise"

\* The last call on soc_analyzer was categorize_counts, alone or from the
\* chart, on a histogram.
SocClassifiedDict ==
    /\ soc_result.call \in {"categorize_counts", "get_stackbar_chart_plotly"}
    /\ soc_analyzer.data.tag = "dict"

\* The positions of the keys that float() cannot parse.
Unparsable == { i \in 1..Len(S) : S[i].k \notin {"-10", "-2.5", "0", "2.5", "10", "nan"} }

\* C12: when a key of the histogram is not the text of a float,
\* categorize_counts raises ValueError (the code's form of ParseError) for the
\* first such key while it builds the list of values, before any key is
\* counted: the call, and the chart call that makes it, return no counts.
C12_UnparsableKeyRaises ==
    (SocClassifiedDict /\ Unparsable # {}) =>
        soc_result.outcome = Raise("ValueError", S[Min(Unparsable)].k)

\* categorize_counts was called on a histogram with a number before and a
\* number after the key "abc".
C12_Witness ==
    /\ soc_result.call = "categorize_counts"
    /\ soc_analyzer.data.tag = "dict"
    /\ Keys(S) = << "-10", "abc", "10" >>
    /\ soc_result.outcome = Raise("ValueError", "abc")

\* C20: the chart of a histogram gives as total the sum of its three bucket
\* counts, as the percentage of each bucket its count / total * 100, and
\* three percentages that sum to 100 within the relative tolerance 1e-6; the
\* bars carry the same counts.  A non-empty histogram whose keys are all
\* numbers gets such a chart.
C20_TotalAndSharesAgree ==
    /\ SocCharted =>
        LET y == [i \in 1..3 |-> SocChart.bars[i].y]
        IN  /\ SocChart.total = y[1] + y[2] + y[3]
            /\ SocChart.total > 0
            /\ \A i \in 1..3 :
                /\ SocChart.percentages[i] % 100 = 0
                /\ NearestUnit(SocChart.percentages[i] \div 100, y[i], SocChart.total)
                /\ IsTwoDecimals(SocChart.bars[i].text, SocChart.percentages[i])
            /\ Abs(sum(SocChart.percentages) - 100 * Resolution) <= Tolerance
    /\ (/\ SocChartCalledOnDict
        /\ Len(S) > 0
        /\ \A i \in 1..Len(S) : BucketOf(S[i].k) # "none") => SocCharted

\* The chart of a histogram of three keys, one below -2.5 and two within the
\* thresholds: shares of a third and of two thirds.
C20_Witness ==
    /\ SocCharted
    /\ SocChart.total = 3
    /\ SocChart.bars[1].y = 1
    /\ SocChart.bars[2].y = 2
    /\ SocChart.percentages[1] % Resolution # 0

\* ---------------------------------------------------------------------
\* Frame of the chart and comparison operations in main (SpecApp)
\* ---------------------------------------------------------------------

\* The step of run r that leaves the position pc.
Leaves(r, pc) == app_runs[r].pc = pc /\ app_runs'[r].pc # pc

\* The histograms a run holds in data_2000 and data_2018 stay what they are.
HistogramsKept(r) ==
    /\ app_runs'[r].data_2000 = app_runs[r].data_2000
    /\ app_runs'[r].data_2018 = app_runs[r].data_2018

\* C21: get_pie_chart_plotly, the LandcoverComparison constructor,
\* generate_comparison_chart and get_stackbar_chart_plotly have no side
\* effect.  A pie chart call leaves every analyzer (its dataset, which names
\* the catalog, and its stored histogram) and the histograms held by the run
\* as they were; the constructor leaves the analyzers and both histograms as
\* they were and stores them and the catalog as given; the comparison chart
\* leaves the comparison object (histograms, catalog and the change record
\* computed by the constructor) as it was; the carbon chart leaves the carbon
\* analyzer and its histogram as they were.
C21_NoSideEffects ==
    [][\A r \in Runs :
          LET lc == app_analyzers[AnalyzerOf(r)]
          IN
          /\ (Leaves(r, "pie_2000") \/ Leaves(r, "pie_2018"))
                => /\ app_analyzers' = app_analyzers
                   /\ HistogramsKept(r)
          /\ Leaves(r, "compare")
                => /\ app_analyzers' = app_analyzers
                   /\ HistogramsKept(r)
                   /\ app_runs'[r].pc = "comparison_chart"
                        => /\ app_runs'[r].lc_comparison.landcover_2000 = app_runs[r].data_2000
                           /\ app_runs'[r].lc_comparison.landcover_2018 = app_runs[r].data_2018
                           /\ app_runs'[r].lc_comparison.class_names = GEEData_class_names(lc.dataset)
                           /\ app_runs'[r].lc_comparison.category_colors = GEEData_class_colors(lc.dataset)
          /\ Leaves(r, "comparison_chart")
                => /\ app_runs'[r].lc_comparison = app_runs[r].lc_comparison
                   /\ app_analyzers' = app_analyzers
                   /\ HistogramsKept(r)
          /\ Leaves(r, "soc_chart")
                => app_runs'[r].soc_analyzer = app_runs[r].soc_analyzer
      ]_vars

\* A run has charted a comparison whose change record holds a category
\* without change next to a changed one, and has charted its carbon
\* histogram too.
C21_Witness ==
    \E r \in Runs :
        IF app_runs[r].pc # "done" \/ app_runs[r].fig_soc = Unbound THEN FALSE
        ELSE /\ \E i, j \in 1..Len(app_runs[r].lc_comparison.changes) :
                    /\ app_runs[r].lc_comparison.changes[i].v = 0
                    /\ app_runs[r].lc_comparison.changes[j].v # 0
             /\ Len(app_runs[r].comparison_chart.x) = 1
             /\ app_runs[r].soc_analyzer.data.tag = "dict"


\* ---------------------------------------------------------------------
\* Which histogram a chart is built from (SpecLcApp)
\* ---------------------------------------------------------------------

\* fig is the pie chart of the histogram h under the catalog of dataset:
\* position by position the class name, the class colour and the percentage
\* of h's key at that position.
BuiltFrom(fig, h, dataset) ==
    /\ Len(fig.labels) = Len(h)
    /\ Len(fig.values) = Len(h)
    /\ Len(fig.marker_colors) = Len(h)
    /\ \A i \in 1..Len(h) :
        /\ h[i].k \in DOMAIN GEEData_class_names(dataset)
        /\ h[i].k \in DOMAIN GEEData_class_colors(dataset)
        /\ fig.labels[i] = GEEData_class_names(dataset)[h[i].k]
        /\ fig.marker_colors[i] = GEEData_class_colors(dataset)[h[i].k]
        /\ NearestUnit(fig.values[i], 100 * h[i].v, sum(Values(h)))

\* h is a histogram get_pie_chart_plotly has a chart for: it has pixels and
\* every key of it is in the catalog of dataset.
Chartable(h, dataset) ==
    /\ Len(h) > 0
    /\ sum(Values(h)) > 0
    /\ \A i \in 1..Len(h) :
        /\ h[i].k \in DOMAIN GEEData_class_names(dataset)
        /\ h[i].k \in DOMAIN GEEData_class_colors(dataset)

\* C22: whatever calculate_frequency_histogram and get_pie_chart_plotly
\* calls were made on one analyzer, failed fetches among them, a chart that
\* is returned is the chart of the histogram the service answered to the most
\* recent successful fetch, and when that histogram has pixels and only
\* catalogued keys the chart call does return.  In main, the figure of 2000
\* is the chart of the histogram the service holds for the run's rectangle
\* in 2000 and the figure of 2018 the chart of the one of 2018; data_2000 is
\* still the histogram of 2000 after the fetch of 2018, and the comparison
\* is constructed with the histogram of 2000 as its baseline and the one of
\* 2018 as its comparison.
C22_ChartOfMostRecentFetch ==
    /\ lc_result.call = "get_pie_chart_plotly" =>
          /\ lc_result.outcome.kind = "return" =>
                /\ lc_fetched.tag = "dict"
                /\ BuiltFrom(lc_result.outcome.value, lc_fetched.items, lc_analyzer.dataset)
          /\ (lc_fetched.tag = "dict" /\ Chartable(lc_fetched.items, lc_analyzer.dataset))
                => lc_result.outcome.kind = "return"
    /\ \A r \in Runs :
          /\ app_runs[r].fig_2000 # Unbound =>
                BuiltFrom(app_runs[r].fig_2000, OwnHistogram(r, "2000").items, "Global-Land-Cover")
          /\ app_runs[r].fig_2018 # Unbound =>
                BuiltFrom(app_runs[r].fig_2018, OwnHistogram(r, "2018").items, "Global-Land-Cover")
          /\ app_runs[r].data_2018 # Unbound =>
                app_runs[r].data_2000 = OwnHistogram(r, "2000")
          /\ app_runs[r].lc_comparison # Unbound =>
                /\ app_runs[r].lc_comparison.landcover_2000 = OwnHistogram(r, "2000")
                /\ app_runs[r].lc_comparison.landcover_2018 = OwnHistogram(r, "2018")

\* A run of main whose rectangle has different histograms in 2000 and 2018:
\* it has fetched and charted both, its two figures differ, and it has
\* constructed the comparison.
C22_Witness ==
    \E r \in Runs :
        /\ app_runs[r].pc = "comparison_chart"
        /\ OwnHistogram(r, "2000") # OwnHistogram(r, "2018")
        /\ app_runs[r].fig_2000 # app_runs[r].fig_2018
        /\ app_runs[r].lc_comparison.landcover_2000 # app_runs[r].data_2018


\* ---------------------------------------------------------------------
\* Charts requested before a histogram is stored (SpecLcSoc)
\* ---------------------------------------------------------------------

\* No fetch has succeeded yet, or the last one that succeeded was answered
\* without the band "b1".
NothingFetched(fetched) == fetched = Unbound \/ fetched = None

\* C23: a chart requested from an analyzer that holds no histogram fails and
\* returns no chart.  While no fetch of a LandcoverAnalyzer has succeeded the
\* object has no data attribute, and while none of a CarbonStockAnalyzer has
\* succeeded its data is None; a fetch answered without the band "b1" stores
\* None.  In each of these states get_pie_chart_plotly, respectively
\* get_stackbar_chart_plotly, raises AttributeError, whatever failed fetches
\* and chart calls came before.
C23_ChartWithoutHistogramFails ==
    /\ (lc_analyzer.class = "processing.LandcoverAnalyzer" /\ NothingFetched(lc_fetched)) =>
          /\ lc_analyzer.data = (IF lc_fetched = Unbound THEN NoAttribute ELSE None)
          /\ lc_result.call = "get_pie_chart_plotly" =>
                /\ lc_result.outcome.kind = "raise"
                /\ lc_result.outcome.exc = "AttributeError"
    /\ NothingFetched(soc_fetched) =>
          /\ soc_analyzer.data = None
          /\ soc_result.call = "get_stackbar_chart_plotly" =>
                /\ soc_result.outcome.kind = "raise"
                /\ soc_result.outcome.exc = "AttributeError"

\* An analyzer of each class was asked for a chart while it held no
\* histogram: no fetch of the LandcoverAnalyzer has succeeded, the
\* CarbonStockAnalyzer's fetch was answered without the band; both chart
\* calls raised AttributeError.
C23_Witness ==
    /\ lc_analyzer.class = "processing.LandcoverAnalyzer"
    /\ lc_fetched = Unbound
    /\ lc_calls = 1
    /\ lc_result = Call("get_pie_chart_plotly", Raise("AttributeError", "data"))
    /\ soc_fetched = None
    /\ soc_result = Call("get_stackbar_chart_plotly", Raise("AttributeError", "keys"))


\* ---------------------------------------------------------------------
\* The list of a GeometryDrawer and the events it has handled (SpecDraw)
\* ---------------------------------------------------------------------

\* The list the events call for: a "created" event appends its geometry, a
\* "deleted" event drops every geometry with the event's id, any other
\* action changes nothing.
RECURSIVE CreatedNotDeleted(_)
CreatedNotDeleted(events) ==
    IF events = << >> THEN << >>
    ELSE LET before == CreatedNotDeleted(SubSeq(events, 1, Len(events) - 1))
             last == events[Len(events)]
         IN  IF last.action = "created" THEN Append(before, last.geo_json)
             ELSE IF last.action = "deleted"
                  THEN SelectSeq(before, LAMBDA g : g.id # last.id)
                  ELSE before

\* C24 as claimed: after any sequence of draw events drawn_geometries holds,
\* in creation order, exactly the geometries that were created and whose id
\* no later "deleted" event named; a "deleted" event removes every stored
\* geometry with its id, also when several share it.
C24_DrawnAreCreatedNotDeleted ==
    drawn_geometries = CreatedNotDeleted(draw_events)

\* What the code does: two features with the id "f1" were created one after
\* the other and a "deleted" event for "f1" followed; the loop removed the
\* first and stepped over the second, which is still in the list.
C24_Witness ==
    /\ Len(draw_events) = 3
    /\ draw_events[1].action = "created" /\ draw_events[1].id = "f1"
    /\ draw_events[2].action = "created" /\ draw_events[2].id = "f1"
    /\ draw_events[1].geo_json # draw_events[2].geo_json
    /\ draw_events[3].action = "deleted" /\ draw_events[3].id = "f1"
    /\ drawn_geometries = << draw_events[2].geo_json >>


====
